---- MODULE Spec2Model ----
(***************************************************************************)
(* FritzBox router watchdog: the monitoring / decision core of             *)
(* watchdog/watchdog.py (FritzBoxWatchdog) with the quorum probe of        *)
(* watchdog/netstat.py, the signal handler, and the exit codes of          *)
(* watchdog/cli.py.                                                        *)
(*                                                                         *)
(* Time is counted in ticks of five minutes: the 5 * 60 s retry penalty,   *)
(* a check interval of five minutes and a restart wait of five minutes are *)
(* one tick each.  An hour has HourTicks ticks (scaled down from 12).      *)
(* time.time() is the wall clock `now`; a sleep of d ticks ends at any     *)
(* instant at least d ticks later.  The 60 s pause after an error and the  *)
(* 30 s slices of the restart wait are shorter than a tick; last_sleep     *)
(* records the seconds asked of a single time.sleep().                     *)
(***************************************************************************)
EXTENDS Integers, Sequences, FiniteSets, TLC

\* ---------------------------------------------------------------- bounds
MaxChecks == 3          \* connectivity checks performed in one run
MaxFailuresCfg == 2     \* largest configured max_failures
MaxRestartsCfg == 2     \* largest configured max_restarts_before_cooldown
HourTicks == 3          \* ticks in one hour of the cooldown window
Horizon == 2            \* ticks the clock may run past one cooldown window
MaxOver == 2            \* checks past the health check's minimum that are drawn
MaxCalls == 2           \* calls of each method made by a caller of the class
MaxErrors == 1          \* exceptions that reach the loop's handler in one run

\* ------------------------------------------------------ program constants
cooldown_hours == 1     \* COOLDOWN_HOURS
check_interval == 1     \* check_interval_minutes * 60, in ticks
restart_wait == 1       \* restart_wait_minutes * 60, in ticks
PenaltySleep == 1       \* time.sleep(5 * 60), in ticks
total_hosts == 4        \* len(hosts) in check_internet
TickSeconds == 300      \* seconds in one tick (the 5 * 60 of the penalty)
ErrorPauseSeconds == 60 \* time.sleep(60) after an error in a cycle
SliceSeconds == 30      \* time.sleep(min(30, remaining)) in the restart wait

cooldown_seconds == cooldown_hours * HourTicks
\* The epoch clock is far beyond one cooldown window when the process starts.
StartTime == cooldown_seconds
MaxTime == StartTime + cooldown_seconds + Horizon

Max(a, b) == IF a >= b THEN a ELSE b
Min(a, b) == IF a <= b THEN a ELSE b

VARIABLES
    \* configuration (fixed at construction)
    mode,                       \* "monitor" (start_monitoring), "once" (check_once)
                                \* or "status" (cli.show_status)
    max_failures,
    max_restarts_before_cooldown,
    username_set,               \* FRITZBOX_USERNAME is configured
    password_set,               \* FRITZBOX_PASSWORD is configured
    \* FritzBoxWatchdog fields
    consecutive_failures,
    check_count,
    total_successful_checks,
    total_failed_checks,
    restart_count,
    last_restart_time,
    in_cooldown,
    total_restarts_attempted,
    successful_restarts,
    \* control
    now,                        \* time.time()
    pc,                         \* position of the single control thread
    cycle_start,
    check_result,               \* value returned by check_connectivity()
    cooldown_result,            \* value returned by _is_in_cooldown() in the loop
    restart_success,            \* value returned by restart_router()
    once_result,                \* value returned by check_once()
    last_sleep,                 \* the longest single time.sleep() of the last wait
    status,                     \* value returned by get_status()
    \* process exit
    stop_at,                    \* position at which a signal or an error ended the run
    exit_code,                  \* argument of sys.exit (-1: still running)
    exit_by,                    \* what ended the process
    \* history
    failed_since_success,       \* failed checks since the last successful probe
    pre,                        \* fields at entry of the running restart_router()
    rr_outcome,                 \* how the last restart_router() ended
    invoked,                    \* restart_router() invocations so far
    cycle_attempts,             \* restart_router() invocations in this cycle
    cycle_router_calls,         \* router client calls in this cycle
    accepted_since_reset,       \* accepted restarts since restart_count was 0
    attempts_since_restore,     \* attempts in the current budget window
    cap_time,                   \* instant of the attempt that used up the budget
    early_attempt,              \* an attempt began inside that window
    scen,                       \* progress along the probe sequence fail, fail, success
    errors,                     \* exceptions that reached the loop's handler
    prev_denied,                \* the policy denied the restart in the cycle before
    health,                     \* what the last _health_check() of a check found
    \* quorum probe (check_internet as a function of the ping results)
    ping_env,                   \* PING_COUNT / PING_TIMEOUT: "valid" or "malformed"
    ping_results,               \* outcome of ping_test per host
    connected,                  \* value returned by check_internet
    probed,                     \* ping_test calls made (0: not run yet)
    probe_raised,               \* check_internet left through an exception
    \* router client (FritzBoxTR064.check_connection / restart_router)
    client_op,                  \* "check", "restart" or "none"
    connect_results,            \* outcome of connect_ex per attempt
    soap_results,               \* outcome of _make_soap_request per request
    log_works,                  \* the log handlers can write
    client_pc,                  \* position inside the client call
    attempt,                    \* loop variable of check_connection
    retry_delay,                \* seconds of the next backoff sleep
    waits,                      \* time.sleep() calls made, in order
    connects,                   \* connect attempts made
    requests,                   \* SOAP requests sent, in order
    client_result               \* "true", "false", "raise" ("none": running)

state_vars == <<consecutive_failures, check_count, total_successful_checks,
                total_failed_checks, restart_count, last_restart_time,
                in_cooldown, total_restarts_attempted, successful_restarts>>
config_vars == <<mode, max_failures, max_restarts_before_cooldown,
                 username_set, password_set>>
\* what only the ways out of the run change
exit_vars == <<stop_at, exit_code, exit_by, errors>>
control_vars == <<now, pc, cycle_start, check_result, cooldown_result,
                  restart_success, once_result>>
history_vars == <<failed_since_success, pre, rr_outcome, invoked, cycle_attempts,
                  cycle_router_calls, accepted_since_reset,
                  attempts_since_restore, cap_time, early_attempt, scen>>
probe_vars == <<ping_env, ping_results, connected, probed, probe_raised>>
client_vars == <<client_op, connect_results, soap_results, log_works, client_pc,
                 attempt, retry_delay, waits, connects, requests, client_result>>
vars == <<config_vars, state_vars, control_vars, history_vars, probe_vars,
          client_vars, last_sleep, status, exit_vars, prev_denied, health>>

\* ------------------------------------------------------------ netstat.py
PingOutcome == {"ok", "fail", "raise"}
Hosts == 1..total_hosts

\* The for loop of check_internet: every host is pinged; a ping that
\* returns False or raises leaves `working` alone.
RECURSIVE ping_loop(_, _, _, _)
ping_loop(r, i, working, calls) ==
    IF i > total_hosts THEN [working |-> working, calls |-> calls]
    ELSE ping_loop(r, i + 1,
                   IF r[i] = "ok" THEN working + 1 ELSE working,
                   calls + 1)

\* Half of the hosts instead of a strict majority.
required_working_half == total_hosts \div 2

required_working == (total_hosts \div 2) + 1

check_internet(r) == ping_loop(r, 1, 0, 0).working >= required_working

hosts_probed(r) == ping_loop(r, 1, 0, 0).calls

\* Outcome of one call of check_internet() as check_connectivity sees it:
\* the quorum verdict, or an exception raised by the call itself.
ProbeOutcomes ==
    {IF check_internet(r) THEN "up" ELSE "down" : r \in [Hosts -> PingOutcome]}
        \cup {"raise"}

\* ---------------------------------------------------- _is_in_cooldown
NoCooldown == [denied |-> FALSE, remaining |-> 0, kind |-> "none"]

\* _is_in_cooldown() that lets one restart more through before it looks at
\* the clock.
is_in_cooldown_loose(rc, lrt, ic, t) ==
    IF rc <= max_restarts_before_cooldown
    THEN [denied |-> FALSE, remaining |-> 0, kind |-> "below_cap",
          restart_count |-> rc, in_cooldown |-> ic]
    ELSE IF t - lrt < cooldown_seconds
         THEN [denied |-> TRUE, remaining |-> cooldown_seconds - (t - lrt),
               kind |-> "denied", restart_count |-> rc, in_cooldown |-> ic]
         ELSE [denied |-> FALSE, remaining |-> 0, kind |-> "expired",
               restart_count |-> 0, in_cooldown |-> FALSE]

\* _is_in_cooldown() that computes the remaining time inside the window but
\* does not report the denial.
is_in_cooldown_open(rc, lrt, ic, t) ==
    IF rc < max_restarts_before_cooldown
    THEN [denied |-> FALSE, remaining |-> 0, kind |-> "below_cap",
          restart_count |-> rc, in_cooldown |-> ic]
    ELSE IF t - lrt < cooldown_seconds
         THEN [denied |-> FALSE, remaining |-> cooldown_seconds - (t - lrt),
               kind |-> "denied", restart_count |-> rc, in_cooldown |-> ic]
         ELSE [denied |-> FALSE, remaining |-> 0, kind |-> "expired",
               restart_count |-> 0, in_cooldown |-> FALSE]

\* _is_in_cooldown() whose window never ends.
is_in_cooldown_forever(rc, lrt, ic, t) ==
    IF rc < max_restarts_before_cooldown
    THEN [denied |-> FALSE, remaining |-> 0, kind |-> "below_cap",
          restart_count |-> rc, in_cooldown |-> ic]
    ELSE [denied |-> TRUE, remaining |-> cooldown_seconds,
          kind |-> "denied", restart_count |-> rc, in_cooldown |-> ic]

\* _is_in_cooldown() that permits whatever the budget and the clock say.
is_in_cooldown_blind(rc, lrt, ic, t) ==
    [denied |-> FALSE, remaining |-> 0, kind |-> "below_cap",
     restart_count |-> rc, in_cooldown |-> ic]

\* _is_in_cooldown() that reports the whole window as remaining.
is_in_cooldown_whole(rc, lrt, ic, t) ==
    IF rc < max_restarts_before_cooldown
    THEN [denied |-> FALSE, remaining |-> 0, kind |-> "below_cap",
          restart_count |-> rc, in_cooldown |-> ic]
    ELSE IF t - lrt < cooldown_seconds
         THEN [denied |-> TRUE, remaining |-> cooldown_seconds,
               kind |-> "denied", restart_count |-> rc, in_cooldown |-> ic]
         ELSE [denied |-> FALSE, remaining |-> 0, kind |-> "expired",
               restart_count |-> 0, in_cooldown |-> FALSE]

\* _is_in_cooldown() whose denial clears the restart budget.
is_in_cooldown_forget(rc, lrt, ic, t) ==
    IF rc < max_restarts_before_cooldown
    THEN [denied |-> FALSE, remaining |-> 0, kind |-> "below_cap",
          restart_count |-> rc, in_cooldown |-> ic]
    ELSE IF t - lrt < cooldown_seconds
         THEN [denied |-> TRUE, remaining |-> cooldown_seconds - (t - lrt),
               kind |-> "denied", restart_count |-> 0, in_cooldown |-> ic]
         ELSE [denied |-> FALSE, remaining |-> 0, kind |-> "expired",
               restart_count |-> 0, in_cooldown |-> FALSE]

\* _is_in_cooldown() that reports an elapsed window without clearing it.
is_in_cooldown_keep(rc, lrt, ic, t) ==
    IF rc < max_restarts_before_cooldown
    THEN [denied |-> FALSE, remaining |-> 0, kind |-> "below_cap",
          restart_count |-> rc, in_cooldown |-> ic]
    ELSE IF t - lrt < cooldown_seconds
         THEN [denied |-> TRUE, remaining |-> cooldown_seconds - (t - lrt),
               kind |-> "denied", restart_count |-> rc, in_cooldown |-> ic]
         ELSE [denied |-> FALSE, remaining |-> 0, kind |-> "expired",
               restart_count |-> rc, in_cooldown |-> ic]

\* Result of _is_in_cooldown() at instant t with the new restart_count and
\* in_cooldown.  `remaining` is cooldown_seconds - time_since_last_restart.
is_in_cooldown(rc, lrt, ic, t) ==
    IF rc < max_restarts_before_cooldown
    THEN [denied |-> FALSE, remaining |-> 0, kind |-> "below_cap",
          restart_count |-> rc, in_cooldown |-> ic]
    ELSE IF t - lrt < cooldown_seconds
         THEN [denied |-> TRUE, remaining |-> cooldown_seconds - (t - lrt),
               kind |-> "denied", restart_count |-> rc, in_cooldown |-> ic]
         ELSE [denied |-> FALSE, remaining |-> 0, kind |-> "expired",
               restart_count |-> 0, in_cooldown |-> FALSE]

\* ------------------------------------------------------------------ Init
NoSleep == [kind |-> "none", seconds |-> 0]
NoStatus == [queried |-> FALSE, in_cooldown |-> FALSE, restart_count |-> 0,
             check_count |-> 0, cooldown_remaining |-> -1, healthy |-> TRUE]

NoHealth == [by |-> "none", issues |-> {}]

NoPre == [restart_count |-> 0, total_restarts_attempted |-> 0,
          successful_restarts |-> 0, last_restart_time |-> 0,
          in_cooldown |-> FALSE]

InitState ==
    /\ consecutive_failures = 0
    /\ check_count = 0
    /\ total_successful_checks = 0
    /\ total_failed_checks = 0
    /\ restart_count = 0
    /\ last_restart_time = 0
    /\ in_cooldown = FALSE
    /\ total_restarts_attempted = 0
    /\ successful_restarts = 0
    /\ now = StartTime
    /\ pc = "init"
    /\ cycle_start = StartTime
    /\ check_result = FALSE
    /\ cooldown_result = NoCooldown
    /\ restart_success = FALSE
    /\ once_result = FALSE
    /\ failed_since_success = 0
    /\ pre = NoPre
    /\ rr_outcome = "none"
    /\ invoked = 0
    /\ cycle_attempts = 0
    /\ cycle_router_calls = 0
    /\ accepted_since_reset = 0
    /\ attempts_since_restore = 0
    /\ cap_time = 0
    /\ early_attempt = FALSE
    /\ scen = 0
    /\ last_sleep = NoSleep
    /\ status = NoStatus
    /\ stop_at = "none"
    /\ exit_code = -1
    /\ exit_by = "none"
    /\ errors = 0
    /\ prev_denied = FALSE
    /\ health = NoHealth

\* The router client at rest: no call of its own is followed step by step.
ClientIdle ==
    /\ client_op = "none"
    /\ connect_results = <<>>
    /\ soap_results = <<>>
    /\ log_works = TRUE
    /\ client_pc = "idle"
    /\ attempt = 0
    /\ retry_delay = 0
    /\ waits = <<>>
    /\ connects = 0
    /\ requests = <<>>
    /\ client_result = "none"

Init ==
    /\ mode \in {"monitor", "once", "status"}
    /\ username_set \in BOOLEAN
    /\ password_set \in BOOLEAN
    /\ max_failures \in 1..MaxFailuresCfg
    /\ max_restarts_before_cooldown \in 1..MaxRestartsCfg
    /\ InitState
    /\ ping_env = "valid"
    /\ ping_results = [h \in Hosts |-> "ok"]
    /\ connected = FALSE
    /\ probed = 0
    /\ probe_raised = FALSE
    /\ ClientIdle

\* --------------------------------------------------------------- history
\* Progress of the probe results along fail, fail, success (4: any other
\* sequence, or a cycle that ended in an error).
scen_next(s, ok) ==
    IF s = 0 /\ ~ok THEN 1
    ELSE IF s = 1 /\ ~ok THEN 2
    ELSE IF s = 2 /\ ok THEN 3
    ELSE 4

\* ------------------------------------------------------------ __init__
load_config_lenient ==
    /\ pc = "init"
    /\ IF username_set
       THEN /\ pc' = "cycle"
            /\ UNCHANGED exit_vars
       ELSE /\ pc' = "exited"
            /\ exit_code' = 1
            /\ exit_by' = "config"
            /\ stop_at' = stop_at
            /\ errors' = errors
    /\ UNCHANGED <<config_vars, state_vars, probe_vars, history_vars, now,
                   cycle_start, check_result, cooldown_result, restart_success,
                   once_result, last_sleep, status>>
    /\ UNCHANGED <<client_vars, prev_denied, health>>

\* _load_config(): sys.exit(1) unless both credentials are set.
load_config ==
    /\ pc = "init"
    /\ IF username_set /\ password_set
       THEN /\ pc' = "cycle"
            /\ UNCHANGED exit_vars
       ELSE /\ pc' = "exited"
            /\ exit_code' = 1
            /\ exit_by' = "config"
            /\ stop_at' = stop_at
            /\ errors' = errors
    /\ UNCHANGED <<config_vars, state_vars, probe_vars, history_vars, now,
                   cycle_start, check_result, cooldown_result, restart_success,
                   once_result, last_sleep, status>>
    /\ UNCHANGED <<client_vars, prev_denied, health>>

\* ----------------------------------------------------------- _health_check
HealthMinChecks == 10
HealthFailureRate == 50
HealthPeriod == 100

\* A failure-rate test that already reports a rate of exactly one half.
health_issues_half(ic, lrt, cc, tfc, t) ==
    (IF ic /\ t - lrt > cooldown_seconds * 2
     THEN {"stuck_in_cooldown"} ELSE {})
    \cup
    (IF cc > HealthMinChecks /\ tfc * 100 >= HealthFailureRate * cc
     THEN {"high_failure_rate"} ELSE {})

\* The issues list of _health_check().
health_issues(ic, lrt, cc, tfc, t) ==
    (IF ic /\ t - lrt > cooldown_seconds * 2
     THEN {"stuck_in_cooldown"} ELSE {})
    \cup
    (IF cc > HealthMinChecks /\ tfc * 100 > HealthFailureRate * cc
     THEN {"high_failure_rate"} ELSE {})

\* if self.check_count % 100 == 0: self._health_check(); cc is check_count
\* after its increment.
periodic_health(h, ic, lrt, cc, tfc, t) ==
    IF cc % HealthPeriod = 0
    THEN [by |-> "periodic", issues |-> health_issues(ic, lrt, cc, tfc, t)]
    ELSE h

\* ------------------------------------------------- check_connectivity
\* Entry of check_connectivity(): self.check_count += 1, before the probe.
check_begin ==
    /\ pc = "cycle"
    /\ mode \in {"monitor", "once"}
    /\ check_count < MaxChecks
    /\ UNCHANGED client_vars
    /\ prev_denied' = cooldown_result.denied
    /\ health' = periodic_health(health, in_cooldown, last_restart_time,
                                 check_count + 1, total_failed_checks, now)
    /\ check_count' = check_count + 1
    /\ cycle_attempts' = 0
    /\ cycle_router_calls' = 0
    /\ cooldown_result' = NoCooldown
    /\ status' = NoStatus
    /\ last_sleep' = NoSleep
    /\ pc' = "probing"
    /\ UNCHANGED <<config_vars, probe_vars, consecutive_failures,
                   total_successful_checks, total_failed_checks, restart_count,
                   last_restart_time, in_cooldown, total_restarts_attempted,
                   successful_restarts, now, cycle_start, check_result,
                   restart_success, once_result, failed_since_success, pre,
                   rr_outcome, invoked, accepted_since_reset,
                   attempts_since_restore, cap_time, early_attempt, scen,
                   exit_vars>>

\* One call of check_connectivity().  probe is the outcome of
\* check_internet(); diag is the outcome of network_diagnostics(), which
\* runs inside the same try block once the failure threshold is reached.
\* The _health_check() / _log_statistics() of every 100th check only log.
check_connectivity(probe, diag) ==
    /\ pc = "probing"
    /\ IF probe = "up"
       THEN /\ total_successful_checks' = total_successful_checks + 1
            /\ total_failed_checks' = total_failed_checks
            /\ IF consecutive_failures > 0 /\ restart_count > 0
               THEN /\ restart_count' = 0
                    /\ in_cooldown' = FALSE
                    /\ accepted_since_reset' = 0
               ELSE UNCHANGED <<restart_count, in_cooldown, accepted_since_reset>>
            /\ consecutive_failures' = 0
            /\ check_result' = TRUE
       ELSE IF probe = "down"
       THEN /\ IF consecutive_failures + 1 >= max_failures /\ diag = "raise"
               THEN \* the except branch counts the failure a second time
                    /\ consecutive_failures' = consecutive_failures + 2
                    /\ total_failed_checks' = total_failed_checks + 2
               ELSE /\ consecutive_failures' = consecutive_failures + 1
                    /\ total_failed_checks' = total_failed_checks + 1
            /\ check_result' = FALSE
            /\ UNCHANGED <<total_successful_checks, restart_count, in_cooldown,
                           accepted_since_reset>>
       ELSE \* check_internet() raised
            /\ total_failed_checks' = total_failed_checks + 1
            /\ consecutive_failures' = consecutive_failures + 1
            /\ check_result' = FALSE
            /\ UNCHANGED <<total_successful_checks, restart_count, in_cooldown,
                           accepted_since_reset>>
    /\ failed_since_success' = IF probe = "up" THEN 0 ELSE failed_since_success + 1
    /\ attempts_since_restore' = IF probe = "up" THEN 0 ELSE attempts_since_restore
    /\ scen' = scen_next(scen, probe = "up")
    /\ pc' = "checked"
    /\ UNCHANGED <<check_count, cycle_attempts, cycle_router_calls,
                   cooldown_result>>
    /\ UNCHANGED <<config_vars, probe_vars, last_restart_time,
                   total_restarts_attempted, successful_restarts, now, cycle_start,
                   restart_success, once_result, pre, rr_outcome, invoked,
                   cap_time, early_attempt>>
    /\ UNCHANGED <<client_vars, prev_denied, health>>
    /\ UNCHANGED <<last_sleep, status, exit_vars>>

\* ---------------------------------------------------- start_monitoring
\* A threshold test that is met by any failure.
threshold_reached_any(cf, mf) == cf >= 1

\* A threshold test that needs one failure more.
threshold_reached_late(cf, mf) == cf > mf

\* if self.consecutive_failures >= self.max_failures
threshold_reached(cf, mf) == cf >= mf

\* The check succeeded, or failed below the threshold: "Next check in ...".
schedule_next_check ==
    /\ pc = "checked"
    /\ mode = "monitor"
    /\ check_result \/ ~threshold_reached(consecutive_failures, max_failures)
    /\ pc' = "sleep"
    /\ UNCHANGED <<config_vars, state_vars, probe_vars, history_vars, now,
                   cycle_start, check_result, cooldown_result, restart_success,
                   once_result>>
    /\ UNCHANGED <<client_vars, prev_denied, health>>
    /\ UNCHANGED <<last_sleep, status, exit_vars>>

\* The check failed at or above the threshold: consult _is_in_cooldown().
loop_cooldown_check ==
    /\ pc = "checked"
    /\ mode = "monitor"
    /\ ~check_result
    /\ threshold_reached(consecutive_failures, max_failures)
    /\ LET c == is_in_cooldown(restart_count, last_restart_time, in_cooldown, now)
       IN /\ restart_count' = c.restart_count
          /\ in_cooldown' = c.in_cooldown
          /\ cooldown_result' = [denied |-> c.denied, remaining |-> c.remaining,
                                 kind |-> c.kind]
          /\ accepted_since_reset' =
                IF c.kind = "expired" THEN 0 ELSE accepted_since_reset
          /\ pc' = IF c.denied THEN "sleep" ELSE "restart"
    /\ UNCHANGED <<config_vars, probe_vars, consecutive_failures, check_count,
                   total_successful_checks, total_failed_checks,
                   last_restart_time, total_restarts_attempted,
                   successful_restarts, now, cycle_start, check_result,
                   restart_success, once_result, failed_since_success, pre,
                   rr_outcome, invoked, cycle_attempts, cycle_router_calls,
                   attempts_since_restore, cap_time, early_attempt, scen>>
    /\ UNCHANGED <<client_vars, prev_denied, health>>
    /\ UNCHANGED <<last_sleep, status, exit_vars>>

\* A loop that sleeps the normal interval whatever restart_router() returned.
after_restart_interval ==
    /\ pc = "returned"
    /\ mode = "monitor"
    /\ pc' = "sleep"
    /\ UNCHANGED <<config_vars, state_vars, probe_vars, history_vars, now,
                   cycle_start, check_result, cooldown_result, restart_success,
                   once_result>>
    /\ UNCHANGED <<client_vars, prev_denied, health>>
    /\ UNCHANGED <<last_sleep, status, exit_vars>>

\* restart_router() returned inside the loop.
after_restart ==
    /\ pc = "returned"
    /\ mode = "monitor"
    /\ pc' = IF restart_success THEN "sleep" ELSE "penalty"
    /\ UNCHANGED <<config_vars, state_vars, probe_vars, history_vars, now,
                   cycle_start, check_result, cooldown_result, restart_success,
                   once_result>>
    /\ UNCHANGED <<client_vars, prev_denied, health>>
    /\ UNCHANGED <<last_sleep, status, exit_vars>>

\* A loop that sleeps the whole interval whatever the cycle took.
interval_sleep_full ==
    /\ pc = "sleep"
    /\ LET cycle_duration == now - cycle_start
           sleep_time == check_interval
       IN /\ \E t \in (now + sleep_time)..MaxTime :
               /\ now' = t
               /\ cycle_start' = t
          /\ last_sleep' = [kind |-> "interval",
                            seconds |-> sleep_time * TickSeconds]
    /\ pc' = "cycle"
    /\ UNCHANGED <<config_vars, state_vars, probe_vars, history_vars,
                   check_result, cooldown_result, restart_success, once_result>>
    /\ UNCHANGED <<client_vars, prev_denied, health>>
    /\ UNCHANGED <<status, exit_vars>>

\* sleep_time = max(0, check_interval - cycle_duration); time.sleep(sleep_time)
interval_sleep ==
    /\ pc = "sleep"
    /\ LET cycle_duration == now - cycle_start
           sleep_time == Max(0, check_interval - cycle_duration)
       IN /\ \E t \in (now + sleep_time)..MaxTime :
               /\ now' = t
               /\ cycle_start' = t
          /\ last_sleep' = [kind |-> "interval",
                            seconds |-> sleep_time * TickSeconds]
    /\ pc' = "cycle"
    /\ UNCHANGED <<config_vars, state_vars, probe_vars, history_vars,
                   check_result, cooldown_result, restart_success, once_result>>
    /\ UNCHANGED <<client_vars, prev_denied, health>>
    /\ UNCHANGED <<status, exit_vars>>

\* time.sleep(5 * 60); continue
penalty_sleep ==
    /\ pc = "penalty"
    /\ \E t \in (now + PenaltySleep)..MaxTime :
            /\ now' = t
            /\ cycle_start' = t
    /\ last_sleep' = [kind |-> "penalty", seconds |-> PenaltySleep * TickSeconds]
    /\ pc' = "cycle"
    /\ UNCHANGED <<config_vars, state_vars, probe_vars, history_vars,
                   check_result, cooldown_result, restart_success, once_result>>
    /\ UNCHANGED <<client_vars, prev_denied, health>>
    /\ UNCHANGED <<status, exit_vars>>

\* ----------------------------------------------------------- check_once
\* A check_once that applies the failure threshold of the loop.
check_once_branch_threshold ==
    /\ pc = "checked"
    /\ mode = "once"
    /\ IF check_result
       THEN /\ once_result' = TRUE
            /\ pc' = "done"
       ELSE IF consecutive_failures >= max_failures
       THEN /\ once_result' = once_result
            /\ pc' = "restart"
       ELSE /\ once_result' = FALSE
            /\ pc' = "done"
    /\ UNCHANGED <<config_vars, state_vars, probe_vars, history_vars, now,
                   cycle_start, check_result, cooldown_result, restart_success>>
    /\ UNCHANGED <<client_vars, prev_denied, health>>
    /\ UNCHANGED <<last_sleep, status, exit_vars>>

\* if self.check_connectivity(): return True, else: return self.restart_router()
check_once_branch ==
    /\ pc = "checked"
    /\ mode = "once"
    /\ IF check_result
       THEN /\ once_result' = TRUE
            /\ pc' = "done"
       ELSE /\ once_result' = once_result
            /\ pc' = "restart"
    /\ UNCHANGED <<config_vars, state_vars, probe_vars, history_vars, now,
                   cycle_start, check_result, cooldown_result, restart_success>>
    /\ UNCHANGED <<client_vars, prev_denied, health>>
    /\ UNCHANGED <<last_sleep, status, exit_vars>>

check_once_return ==
    /\ pc = "returned"
    /\ mode = "once"
    /\ once_result' = restart_success
    /\ pc' = "done"
    /\ UNCHANGED <<config_vars, state_vars, probe_vars, history_vars, now,
                   cycle_start, check_result, cooldown_result, restart_success>>
    /\ UNCHANGED <<client_vars, prev_denied, health>>
    /\ UNCHANGED <<last_sleep, status, exit_vars>>

\* -------------------------------------------------------- restart_router
\* A restart_router() that spends a unit of the budget before the re-check.
restart_router_begin_counted ==
    /\ pc = "restart"
    /\ total_restarts_attempted' = total_restarts_attempted + 1
    /\ pre' = [restart_count |-> restart_count,
               total_restarts_attempted |-> total_restarts_attempted,
               successful_restarts |-> successful_restarts,
               last_restart_time |-> last_restart_time,
               in_cooldown |-> in_cooldown]
    /\ invoked' = invoked + 1
    /\ cycle_attempts' = cycle_attempts + 1
    /\ LET c == is_in_cooldown(restart_count, last_restart_time, in_cooldown, now)
       IN IF c.denied
          THEN /\ restart_success' = FALSE
               /\ rr_outcome' = "denied"
               /\ pc' = "returned"
               /\ restart_count' = restart_count + 1
               /\ UNCHANGED <<in_cooldown, accepted_since_reset,
                              attempts_since_restore, cap_time, early_attempt>>
          ELSE /\ restart_count' = c.restart_count + 1
               /\ in_cooldown' = c.in_cooldown
               /\ accepted_since_reset' =
                     IF c.kind = "expired" THEN 0 ELSE accepted_since_reset
               /\ rr_outcome' = "running"
               /\ pc' = "reach"
               /\ restart_success' = restart_success
               /\ LET inside == /\ attempts_since_restore >= max_restarts_before_cooldown
                                /\ now - cap_time < cooldown_seconds
                      fresh == /\ attempts_since_restore >= max_restarts_before_cooldown
                               /\ now - cap_time >= cooldown_seconds
                      n == IF fresh THEN 1 ELSE attempts_since_restore + 1
                  IN /\ early_attempt' = (early_attempt \/ inside)
                     /\ attempts_since_restore' = n
                     /\ cap_time' = IF n = max_restarts_before_cooldown
                                    THEN now ELSE cap_time
    /\ UNCHANGED <<config_vars, probe_vars, consecutive_failures, check_count,
                   total_successful_checks, total_failed_checks,
                   last_restart_time, successful_restarts, now, cycle_start,
                   check_result, cooldown_result, once_result,
                   failed_since_success, cycle_router_calls, scen>>
    /\ UNCHANGED <<client_vars, prev_denied, health>>
    /\ UNCHANGED <<last_sleep, status, exit_vars>>

\* Entry of restart_router(): count the attempt, re-check the cooldown and,
\* when permitted, consume one unit of the restart budget.
restart_router_begin ==
    /\ pc = "restart"
    /\ total_restarts_attempted' = total_restarts_attempted + 1
    /\ pre' = [restart_count |-> restart_count,
               total_restarts_attempted |-> total_restarts_attempted,
               successful_restarts |-> successful_restarts,
               last_restart_time |-> last_restart_time,
               in_cooldown |-> in_cooldown]
    /\ invoked' = invoked + 1
    /\ cycle_attempts' = cycle_attempts + 1
    /\ LET c == is_in_cooldown(restart_count, last_restart_time, in_cooldown, now)
       IN IF c.denied
          THEN /\ restart_success' = FALSE
               /\ rr_outcome' = "denied"
               /\ pc' = "returned"
               /\ UNCHANGED <<restart_count, in_cooldown, accepted_since_reset,
                              attempts_since_restore, cap_time, early_attempt>>
          ELSE /\ restart_count' = c.restart_count + 1
               /\ in_cooldown' = c.in_cooldown
               /\ accepted_since_reset' =
                     IF c.kind = "expired" THEN 0 ELSE accepted_since_reset
               /\ rr_outcome' = "running"
               /\ pc' = "reach"
               /\ restart_success' = restart_success
               /\ LET inside == /\ attempts_since_restore >= max_restarts_before_cooldown
                                /\ now - cap_time < cooldown_seconds
                      fresh == /\ attempts_since_restore >= max_restarts_before_cooldown
                               /\ now - cap_time >= cooldown_seconds
                      n == IF fresh THEN 1 ELSE attempts_since_restore + 1
                  IN /\ early_attempt' = (early_attempt \/ inside)
                     /\ attempts_since_restore' = n
                     /\ cap_time' = IF n = max_restarts_before_cooldown
                                    THEN now ELSE cap_time
    /\ UNCHANGED <<config_vars, probe_vars, consecutive_failures, check_count,
                   total_successful_checks, total_failed_checks,
                   last_restart_time, successful_restarts, now, cycle_start,
                   check_result, cooldown_result, once_result,
                   failed_since_success, cycle_router_calls, scen>>
    /\ UNCHANGED <<client_vars, prev_denied, health>>
    /\ UNCHANGED <<last_sleep, status, exit_vars>>

\* A log call between the two increments and the first try block of
\* restart_router() raises: the exception leaves restart_router() and is
\* caught by the loop (except Exception around self.restart_router()),
\* which goes on with restart_success = False.
restart_exception ==
    /\ pc = "reach"
    /\ mode = "monitor"
    /\ restart_success' = FALSE
    /\ rr_outcome' = "raised"
    /\ pc' = "returned"
    /\ UNCHANGED <<config_vars, state_vars, probe_vars, now, cycle_start,
                   check_result, cooldown_result, once_result,
                   failed_since_success, pre, invoked, cycle_attempts,
                   cycle_router_calls, accepted_since_reset,
                   attempts_since_restore, cap_time, early_attempt, scen>>
    /\ UNCHANGED <<client_vars, prev_denied, health>>
    /\ UNCHANGED <<last_sleep, status, exit_vars>>

\* An unreachable router that gives the restart_count increment back.
router_check_connection_rollback(outcome) ==
    /\ pc = "reach"
    /\ cycle_router_calls' = cycle_router_calls + 1
    /\ IF outcome = "ok"
       THEN /\ pc' = "command"
            /\ UNCHANGED <<restart_success, rr_outcome, restart_count>>
       ELSE /\ restart_success' = FALSE
            /\ rr_outcome' = IF outcome = "unreachable"
                             THEN "unreachable" ELSE "conn_error"
            /\ restart_count' = restart_count - 1
            /\ pc' = "returned"
    /\ UNCHANGED <<config_vars, probe_vars, now, cycle_start,
                   check_result, cooldown_result, once_result,
                   failed_since_success, pre, invoked, cycle_attempts,
                   accepted_since_reset, attempts_since_restore, cap_time,
                   early_attempt, scen>>
    /\ UNCHANGED <<consecutive_failures, check_count, total_successful_checks,
                   total_failed_checks, last_restart_time, in_cooldown,
                   total_restarts_attempted, successful_restarts>>
    /\ UNCHANGED <<client_vars, prev_denied, health>>
    /\ UNCHANGED <<last_sleep, status, exit_vars>>

\* self.fritz.check_connection() inside its try block.
router_check_connection(outcome) ==
    /\ pc = "reach"
    /\ cycle_router_calls' = cycle_router_calls + 1
    /\ IF outcome = "ok"
       THEN /\ pc' = "command"
            /\ UNCHANGED <<restart_success, rr_outcome>>
       ELSE /\ restart_success' = FALSE
            /\ rr_outcome' = IF outcome = "unreachable"
                             THEN "unreachable" ELSE "conn_error"
            /\ pc' = "returned"
    /\ UNCHANGED <<config_vars, state_vars, probe_vars, now, cycle_start,
                   check_result, cooldown_result, once_result,
                   failed_since_success, pre, invoked, cycle_attempts,
                   accepted_since_reset, attempts_since_restore, cap_time,
                   early_attempt, scen>>
    /\ UNCHANGED <<client_vars, prev_denied, health>>
    /\ UNCHANGED <<last_sleep, status, exit_vars>>

\* A rollback that forgets total_restarts_attempted.
\* A rollback that takes two attempts back from each counter.
restart_error_rollback_double(rc, tra) ==
    [restart_count |-> rc - 1, total_restarts_attempted |-> tra - 2]

\* A rollback that gives the whole budget back.
restart_error_rollback_all(rc, tra) ==
    [restart_count |-> 0, total_restarts_attempted |-> tra - 1]

restart_error_rollback_half(rc, tra) ==
    [restart_count |-> rc - 1, total_restarts_attempted |-> tra]

\* except Exception around self.fritz.restart_router(): the attempt is
\* taken back from both counters.
restart_error_rollback(rc, tra) ==
    [restart_count |-> rc - 1, total_restarts_attempted |-> tra - 1]

\* A re-probe that never clears the failure counter.
\* A re-probe whose failure is counted like a failed check.
reprobe_consecutive_counted(cf, up) == IF up THEN 0 ELSE cf + 1

reprobe_consecutive_stuck(cf, up) == cf

\* consecutive_failures after the post-restart check_internet().
reprobe_consecutive(cf, up) == IF up THEN 0 ELSE cf

\* self.fritz.restart_router() inside its try block, and the bookkeeping of
\* its three outcomes.
\* A success path that never raises the in_cooldown flag.
cooldown_flag_never(rc, ic) == ic

cooldown_flag_always(rc, ic) == TRUE

\* if self.restart_count >= self.max_restarts_before_cooldown:
\*     self.in_cooldown = True
cooldown_flag(rc, ic) ==
    IF rc >= max_restarts_before_cooldown THEN TRUE ELSE ic

\* A false restart command that keeps its restart_count increment.
restart_failed_rollback_none(rc) == rc

restart_failed_rollback_twice(rc) == rc - 2

\* "Don't count failed restart attempts towards the cooldown limit"
restart_failed_rollback(rc) == rc - 1

router_restart_command(outcome) ==
    /\ pc = "command"
    /\ cycle_router_calls' = cycle_router_calls + 1
    /\ IF outcome = "raise"
       THEN /\ LET r == restart_error_rollback(restart_count,
                                                 total_restarts_attempted)
               IN /\ restart_count' = r.restart_count
                  /\ total_restarts_attempted' = r.total_restarts_attempted
            /\ restart_success' = FALSE
            /\ rr_outcome' = "cmd_error"
            /\ pc' = "returned"
            /\ UNCHANGED <<successful_restarts, last_restart_time, in_cooldown,
                           accepted_since_reset>>
       ELSE IF outcome = "true"
       THEN /\ successful_restarts' = successful_restarts + 1
            /\ last_restart_time' = now
            /\ in_cooldown' = cooldown_flag(restart_count, in_cooldown)
            /\ accepted_since_reset' = accepted_since_reset + 1
            /\ rr_outcome' = "accepted"
            /\ pc' = "wait"
            /\ UNCHANGED <<restart_count, total_restarts_attempted,
                           restart_success>>
       ELSE /\ restart_count' = restart_failed_rollback(restart_count)
            /\ restart_success' = FALSE
            /\ rr_outcome' = "cmd_false"
            /\ pc' = "returned"
            /\ UNCHANGED <<total_restarts_attempted, successful_restarts,
                           last_restart_time, in_cooldown, accepted_since_reset>>
    /\ UNCHANGED <<config_vars, probe_vars, consecutive_failures, check_count,
                   total_successful_checks, total_failed_checks, now,
                   cycle_start, check_result, cooldown_result, once_result,
                   failed_since_success, pre, invoked, cycle_attempts,
                   attempts_since_restore, cap_time, early_attempt, scen>>
    /\ UNCHANGED <<client_vars, prev_denied, health>>
    /\ UNCHANGED <<last_sleep, status, exit_vars>>

\* A wait loop that ends before restart_wait has elapsed.
restart_wait_sleep_short ==
    /\ pc = "wait"
    /\ \E t \in now..MaxTime : now' = t
    /\ last_sleep' = [kind |-> "restart_wait",
                      seconds |-> Min(SliceSeconds, restart_wait * TickSeconds)]
    /\ pc' = "reprobe"
    /\ UNCHANGED <<config_vars, state_vars, probe_vars, history_vars,
                   cycle_start, check_result, cooldown_result, restart_success,
                   once_result>>
    /\ UNCHANGED <<client_vars, prev_denied, health>>
    /\ UNCHANGED <<status, exit_vars>>

\* while time.time() - wait_start < self.restart_wait: time.sleep(...)
restart_wait_sleep ==
    /\ pc = "wait"
    /\ \E t \in (now + restart_wait)..MaxTime : now' = t
    /\ last_sleep' = [kind |-> "restart_wait",
                      seconds |-> Min(SliceSeconds, restart_wait * TickSeconds)]
    /\ pc' = "reprobe"
    /\ UNCHANGED <<config_vars, state_vars, probe_vars, history_vars,
                   cycle_start, check_result, cooldown_result, restart_success,
                   once_result>>
    /\ UNCHANGED <<client_vars, prev_denied, health>>
    /\ UNCHANGED <<status, exit_vars>>

\* "Checking if internet is restored...": check_internet() after the wait.
post_restart_probe(probe) ==
    /\ pc = "reprobe"
    /\ consecutive_failures' = reprobe_consecutive(consecutive_failures, probe = "up")
    /\ IF probe = "up"
       THEN /\ restart_success' = TRUE
            /\ rr_outcome' = "restored"
            /\ failed_since_success' = 0
            /\ attempts_since_restore' = 0
       ELSE /\ restart_success' = FALSE
            /\ rr_outcome' = "still_down"
            /\ UNCHANGED <<failed_since_success, attempts_since_restore>>
    /\ scen' = scen_next(scen, probe = "up")
    /\ pc' = "returned"
    /\ UNCHANGED <<config_vars, probe_vars, check_count,
                   total_successful_checks, total_failed_checks, restart_count,
                   last_restart_time, in_cooldown, total_restarts_attempted,
                   successful_restarts, now, cycle_start, check_result,
                   cooldown_result, once_result, pre, invoked, cycle_attempts,
                   cycle_router_calls, accepted_since_reset, cap_time,
                   early_attempt>>
    /\ UNCHANGED <<client_vars, prev_denied, health>>
    /\ UNCHANGED <<last_sleep, status, exit_vars>>

\* ---------------------------------------------- errors inside a cycle
\* Positions of start_monitoring's inner try at which a call that no nearer
\* handler guards can raise: the log_info right after check_count += 1 and
\* the messages the loop logs once the check has returned.
RaisePositions == {"probing", "checked"}

\* except Exception as e (inner): log_error, log_info, time.sleep(60).
\* handler = "raise": the handler's own log call raises, the outer
\* except logs the statistics and re-raises, and cli.main exits with 1.
cycle_exception(handler) ==
    /\ mode = "monitor"
    /\ pc \in RaisePositions
    /\ errors < MaxErrors
    /\ errors' = errors + 1
    /\ IF handler = "ok"
       THEN /\ pc' = "error_pause"
            /\ UNCHANGED <<stop_at, exit_code, exit_by>>
       ELSE /\ pc' = "exited"
            /\ exit_code' = 1
            /\ exit_by' = "error"
            /\ stop_at' = pc
    /\ scen' = 4
    /\ UNCHANGED <<config_vars, state_vars, probe_vars, now, cycle_start,
                   check_result, cooldown_result, restart_success, once_result,
                   last_sleep, status, failed_since_success, pre, rr_outcome,
                   invoked, cycle_attempts, cycle_router_calls,
                   accepted_since_reset, attempts_since_restore, cap_time,
                   early_attempt>>
    /\ UNCHANGED <<client_vars, prev_denied, health>>

\* time.sleep(60)  # Wait 1 minute before retrying
\* (less than one tick: the clock of the model does not advance)
error_pause_sleep ==
    /\ pc = "error_pause"
    /\ now' = now
    /\ cycle_start' = now
    /\ last_sleep' = [kind |-> "error", seconds |-> ErrorPauseSeconds]
    /\ pc' = "cycle"
    /\ UNCHANGED <<config_vars, state_vars, probe_vars, history_vars,
                   check_result, cooldown_result, restart_success, once_result,
                   status, exit_vars>>
    /\ UNCHANGED <<client_vars, prev_denied, health>>

\* An exception leaving check_once() reaches cli.main's except: sys.exit(1).
once_exception ==
    /\ mode = "once"
    /\ pc \in {"probing", "checked", "reach", "returned"}
    /\ pc' = "exited"
    /\ exit_code' = 1
    /\ exit_by' = "error"
    /\ stop_at' = pc
    /\ errors' = errors
    /\ UNCHANGED <<config_vars, state_vars, probe_vars, history_vars, now,
                   cycle_start, check_result, cooldown_result, restart_success,
                   once_result, last_sleep, status>>
    /\ UNCHANGED <<client_vars, prev_denied, health>>

\* ------------------------------------------------------ signal handler
\* Positions at which no cycle is in progress: the top of the loop and the
\* sleeps that end a cycle.
BetweenCycles == {"cycle", "sleep", "penalty", "error_pause"}
\* Positions inside a blocking time.sleep().
BlockingWaits == {"sleep", "penalty", "error_pause", "wait"}
Terminal == {"exited", "stopped"}

signal_handler_late ==
    /\ pc \notin Terminal \cup {"init", "done"}
    /\ pc' = "stopped"
    /\ stop_at' = pc
    /\ errors' = errors
    /\ exit_code' = 0
    /\ exit_by' = "signal"
    /\ now' = IF pc \in BlockingWaits /\ now < MaxTime THEN now + 1 ELSE now
    /\ UNCHANGED <<config_vars, state_vars, probe_vars, history_vars,
                   cycle_start, check_result, cooldown_result, restart_success,
                   once_result, last_sleep, status>>
    /\ UNCHANGED <<client_vars, prev_denied, health>>

\* signal_handler(signum, frame): log, _log_statistics(), sys.exit(0).  The
\* interpreter runs it as soon as SIGTERM/SIGINT arrives, wherever the main
\* thread is, and a sleep in progress is cut short.
signal_handler ==
    /\ pc \notin Terminal \cup {"init", "done"}
    /\ pc' = "stopped"
    /\ stop_at' = pc
    /\ errors' = errors
    /\ exit_code' = 0
    /\ exit_by' = "signal"
    /\ UNCHANGED <<config_vars, state_vars, probe_vars, history_vars, now,
                   cycle_start, check_result, cooldown_result, restart_success,
                   once_result, last_sleep, status>>
    /\ UNCHANGED <<client_vars, prev_denied, health>>

\* ----------------------------------------------------------------- cli
cli_exit_once_checked ==
    /\ mode = "once"
    /\ pc = "done"
    /\ pc' = "exited"
    /\ exit_code' = IF check_result THEN 0 ELSE 1
    /\ exit_by' = "once"
    /\ stop_at' = stop_at
    /\ errors' = errors
    /\ UNCHANGED <<config_vars, state_vars, probe_vars, history_vars, now,
                   cycle_start, check_result, cooldown_result, restart_success,
                   once_result, last_sleep, status>>
    /\ UNCHANGED <<client_vars, prev_denied, health>>

\* result = watchdog.check_once(); sys.exit(0 if result else 1)
cli_exit_once ==
    /\ mode = "once"
    /\ pc = "done"
    /\ pc' = "exited"
    /\ exit_code' = IF once_result THEN 0 ELSE 1
    /\ exit_by' = "once"
    /\ stop_at' = stop_at
    /\ errors' = errors
    /\ UNCHANGED <<config_vars, state_vars, probe_vars, history_vars, now,
                   cycle_start, check_result, cooldown_result, restart_success,
                   once_result, last_sleep, status>>
    /\ UNCHANGED <<client_vars, prev_denied, health>>

\* ------------------------------------------------------------ get_status
\* _health_check(): True iff no issue is found.
health_check(ic, lrt, cc, tfc, t) ==
    /\ ~(ic /\ t - lrt > cooldown_seconds * 2)
    /\ ~(cc > HealthMinChecks /\ tfc * 100 > HealthFailureRate * cc)

\* The status dictionary, reduced to the fields the policy is concerned with.
status_snapshot(rc, lrt, ic, cc, tfc, t) ==
    [queried |-> TRUE,
     in_cooldown |-> ic,
     restart_count |-> rc,
     check_count |-> cc,
     cooldown_remaining |->
         IF ic /\ lrt > 0
         THEN Max(0, cooldown_seconds - (t - lrt))
         ELSE -1,
     healthy |-> health_check(ic, lrt, cc, tfc, t)]

get_status_refresh ==
    /\ pc = "cycle"
    /\ ~status.queried
    /\ LET r == is_in_cooldown(restart_count, last_restart_time, in_cooldown, now)
       IN /\ restart_count' = r.restart_count
          /\ in_cooldown' = r.in_cooldown
          /\ status' = status_snapshot(r.restart_count, last_restart_time,
                                       r.in_cooldown, check_count,
                                       total_failed_checks, now)
    /\ IF mode = "status"
       THEN /\ pc' = "exited"
            /\ exit_code' = 0
            /\ exit_by' = "status"
            /\ stop_at' = stop_at
            /\ errors' = errors
       ELSE UNCHANGED <<pc, exit_vars>>
    /\ UNCHANGED <<config_vars, probe_vars, history_vars, consecutive_failures,
                   check_count, total_successful_checks, total_failed_checks,
                   last_restart_time, total_restarts_attempted,
                   successful_restarts, now, cycle_start, check_result,
                   cooldown_result, restart_success, once_result, last_sleep>>
    /\ UNCHANGED <<client_vars, prev_denied, health>>

\* get_status(), called on the object between two cycles; with --status
\* (cli.show_status) on a freshly constructed object, after which main
\* returns and the process exits with 0.
get_status ==
    /\ pc = "cycle"
    /\ ~status.queried
    /\ status' = status_snapshot(restart_count, last_restart_time, in_cooldown,
                                 check_count, total_failed_checks, now)
    /\ restart_count' = restart_count
    /\ in_cooldown' = in_cooldown
    /\ IF mode = "status"
       THEN /\ pc' = "exited"
            /\ exit_code' = 0
            /\ exit_by' = "status"
            /\ stop_at' = stop_at
            /\ errors' = errors
       ELSE UNCHANGED <<pc, exit_vars>>
    /\ UNCHANGED <<config_vars, probe_vars, history_vars, consecutive_failures,
                   check_count, total_successful_checks, total_failed_checks,
                   last_restart_time, total_restarts_attempted,
                   successful_restarts, now, cycle_start, check_result,
                   cooldown_result, restart_success, once_result, last_sleep>>
    /\ UNCHANGED <<client_vars, prev_denied, health>>

\* ------------------------------------------------------------------ Spec
Next ==
    \/ load_config
    \/ \E handler \in {"ok", "raise"} : cycle_exception(handler)
    \/ error_pause_sleep
    \/ once_exception
    \/ signal_handler
    \/ cli_exit_once
    \/ get_status
    \/ check_begin
    \/ \E probe \in ProbeOutcomes, diag \in {"ok", "raise"} :
          check_connectivity(probe, diag)
    \/ schedule_next_check
    \/ loop_cooldown_check
    \/ after_restart
    \/ interval_sleep
    \/ penalty_sleep
    \/ check_once_branch
    \/ check_once_return
    \/ restart_router_begin
    \/ restart_exception
    \/ \E outcome \in {"ok", "unreachable", "raise"} :
          router_check_connection(outcome)
    \/ \E outcome \in {"true", "false", "raise"} :
          router_restart_command(outcome)
    \/ restart_wait_sleep
    \/ \E probe \in ProbeOutcomes : post_restart_probe(probe)

Spec == Init /\ [][Next]_vars

\* --------------------------------------------- check_internet as a function
\* The ping results are drawn at Init; the one action applies check_internet.
InitProbe ==
    /\ mode = "once"
    /\ username_set = TRUE
    /\ password_set = TRUE
    /\ max_failures = 1
    /\ max_restarts_before_cooldown = 1
    /\ InitState
    /\ ping_env \in {"valid", "malformed"}
    /\ ping_results \in [Hosts -> PingOutcome]
    /\ connected = FALSE
    /\ probed = 0
    /\ probe_raised = FALSE
    /\ ClientIdle

\* check_internet(): ping_count = int(os.environ.get('PING_COUNT', '3')) and
\* the same for PING_TIMEOUT come before the loop and outside any try.
run_check_internet ==
    /\ probed = 0
    /\ ~probe_raised
    /\ IF ping_env = "malformed"
       THEN /\ probe_raised' = TRUE
            /\ UNCHANGED <<connected, probed>>
       ELSE /\ connected' = check_internet(ping_results)
            /\ probed' = hosts_probed(ping_results)
            /\ probe_raised' = FALSE
    /\ UNCHANGED <<config_vars, state_vars, control_vars, history_vars,
                   ping_env, ping_results>>
    /\ UNCHANGED <<client_vars, prev_denied, health>>
    /\ UNCHANGED <<last_sleep, status, exit_vars>>

NextProbe == run_check_internet

SpecProbe == InitProbe /\ [][NextProbe]_vars

\* -------------------------------------------------------------- router.py
max_retries == 3
initial_retry_delay == 1
ConnectOutcomes == {"connected", "refused", "error"}

backoff_linear(d) == d + 2

\* retry_delay *= 2  # Exponential backoff
backoff(d) == d * 2

\* What a SOAP request can meet on the way to the router and back.
TransportOutcomes ==
    {"response", "http_error", "timeout", "auth_failed", "connect_error"}

restart_methods ==
    <<"DeviceConfig Reboot", "DeviceConfig Restart", "Alternative DeviceConfig">>

SoapRequests == {"GetInfo"} \cup {restart_methods[i] : i \in 1..Len(restart_methods)}

soap_response_lenient(o) ==
    IF o \in {"response", "http_error"} THEN "body" ELSE "None"

\* _make_soap_request: the decoded body, or None for every failure of the
\* digest request and of its basic-auth fallback.
soap_response(o) == IF o = "response" THEN "body" ELSE "None"

InitClient ==
    /\ mode = "once"
    /\ username_set = TRUE
    /\ password_set = TRUE
    /\ max_failures = 1
    /\ max_restarts_before_cooldown = 1
    /\ InitState
    /\ ping_env = "valid"
    /\ ping_results = [h \in Hosts |-> "ok"]
    /\ connected = FALSE
    /\ probed = 0
    /\ probe_raised = FALSE
    /\ client_op \in {"check", "restart"}
    /\ log_works \in BOOLEAN
    /\ IF client_op = "check"
       THEN /\ connect_results \in [1..max_retries -> ConnectOutcomes]
            /\ soap_results = <<>>
            /\ client_pc = "connect"
            /\ retry_delay = initial_retry_delay
       ELSE /\ connect_results = <<>>
            /\ soap_results \in [SoapRequests -> TransportOutcomes]
            /\ client_pc = "start"
            /\ retry_delay = 0
    /\ attempt = 0
    /\ waits = <<>>
    /\ connects = 0
    /\ requests = <<>>
    /\ client_result = "none"

\* One pass of `for attempt in range(max_retries)` in check_connection.
\* A log call that raises does so inside the try block or in its handler,
\* whose own log_error raises in turn, or at the log_error after the loop.
check_connection_attempt ==
    /\ client_op = "check"
    /\ client_pc = "connect"
    /\ connects' = connects + 1
    /\ LET r == connect_results[attempt + 1]
       IN IF r = "connected"
          THEN /\ client_result' = IF attempt > 0 /\ ~log_works
                                   THEN "raise" ELSE "true"
               /\ client_pc' = "done"
          ELSE IF ~log_works
          THEN /\ client_result' = "raise"
               /\ client_pc' = "done"
          ELSE IF attempt < max_retries - 1
          THEN /\ client_result' = client_result
               /\ client_pc' = "backoff"
          ELSE /\ client_result' = "false"
               /\ client_pc' = "done"
    /\ UNCHANGED <<config_vars, state_vars, control_vars, history_vars,
                   probe_vars, last_sleep, status, exit_vars, prev_denied, health,
                   client_op,
                   connect_results, soap_results, log_works, attempt,
                   retry_delay, waits, requests>>

\* time.sleep(retry_delay); retry_delay *= 2
check_connection_backoff ==
    /\ client_op = "check"
    /\ client_pc = "backoff"
    /\ waits' = Append(waits, retry_delay)
    /\ retry_delay' = backoff(retry_delay)
    /\ attempt' = attempt + 1
    /\ client_pc' = "connect"
    /\ UNCHANGED <<config_vars, state_vars, control_vars, history_vars,
                   probe_vars, last_sleep, status, exit_vars, prev_denied, health,
                   client_op,
                   connect_results, soap_results, log_works, connects,
                   requests, client_result>>

\* FritzBoxTR064.restart_router up to the loop over the methods: two log
\* calls, then get_device_info(), whose result only changes a warning.
fritz_restart_begin ==
    /\ client_op = "restart"
    /\ client_pc = "start"
    /\ IF ~log_works
       THEN /\ client_result' = "raise"
            /\ client_pc' = "done"
            /\ UNCHANGED <<requests, attempt>>
       ELSE /\ requests' = <<"GetInfo">>
            /\ attempt' = 1
            /\ client_pc' = "methods"
            /\ client_result' = client_result
    /\ UNCHANGED <<config_vars, state_vars, control_vars, history_vars,
                   probe_vars, last_sleep, status, exit_vars, prev_denied, health,
                   client_op,
                   connect_results, soap_results, log_works, retry_delay,
                   waits, connects>>

\* One pass of `for method in restart_methods`.
fritz_restart_method ==
    /\ client_op = "restart"
    /\ client_pc = "methods"
    /\ LET m == restart_methods[attempt]
       IN /\ requests' = Append(requests, m)
          /\ IF soap_response(soap_results[m]) # "None"
             THEN /\ client_result' = "true"
                  /\ client_pc' = "done"
                  /\ attempt' = attempt
             ELSE IF attempt = Len(restart_methods)
             THEN /\ client_result' = "false"
                  /\ client_pc' = "done"
                  /\ attempt' = attempt
             ELSE /\ client_result' = client_result
                  /\ client_pc' = "methods"
                  /\ attempt' = attempt + 1
    /\ UNCHANGED <<config_vars, state_vars, control_vars, history_vars,
                   probe_vars, last_sleep, status, exit_vars, prev_denied, health,
                   client_op,
                   connect_results, soap_results, log_works, retry_delay,
                   waits, connects>>

NextClient ==
    \/ check_connection_attempt
    \/ check_connection_backoff
    \/ fritz_restart_begin
    \/ fritz_restart_method

SpecClient == InitClient /\ [][NextClient]_vars

\* ------------------------------------------ the methods as a caller sees them
\* A caller of the class constructs one FritzBoxWatchdog and then calls
\* check_connectivity() and restart_router() in any order, at any instants:
\* neither method is entered through the loop's threshold and policy tests.
CallRest == {"init", "checked", "returned"}

InitCall ==
    /\ mode = "call"
    /\ username_set = TRUE
    /\ password_set = TRUE
    /\ max_failures \in 1..MaxFailuresCfg
    /\ max_restarts_before_cooldown \in 1..MaxRestartsCfg
    /\ InitState
    /\ ping_env = "valid"
    /\ ping_results = [h \in Hosts |-> "ok"]
    /\ connected = FALSE
    /\ probed = 0
    /\ probe_raised = FALSE
    /\ ClientIdle

\* watchdog.check_connectivity() called: self.check_count += 1.
call_check_connectivity ==
    /\ mode = "call"
    /\ pc \in CallRest
    /\ check_count < MaxCalls
    /\ check_count' = check_count + 1
    /\ pc' = "probing"
    /\ UNCHANGED <<config_vars, probe_vars, now, consecutive_failures,
                   total_successful_checks, total_failed_checks, restart_count,
                   last_restart_time, in_cooldown, total_restarts_attempted,
                   successful_restarts, cycle_start, check_result,
                   cooldown_result, restart_success, once_result, history_vars>>
    /\ UNCHANGED <<client_vars, prev_denied, health>>
    /\ UNCHANGED <<last_sleep, status, exit_vars>>

\* watchdog.restart_router() called.
call_restart_router ==
    /\ mode = "call"
    /\ pc \in CallRest
    /\ invoked < MaxCalls
    /\ \E t \in now..MaxTime : now' = t
    /\ cycle_attempts' = 0
    /\ cycle_router_calls' = 0
    /\ pc' = "restart"
    /\ UNCHANGED <<config_vars, state_vars, probe_vars, cycle_start,
                   check_result, cooldown_result, restart_success, once_result,
                   failed_since_success, pre, rr_outcome, invoked,
                   accepted_since_reset, attempts_since_restore, cap_time,
                   early_attempt, scen>>
    /\ UNCHANGED <<client_vars, prev_denied, health>>
    /\ UNCHANGED <<last_sleep, status, exit_vars>>

NextCall ==
    \/ call_check_connectivity
    \/ call_restart_router
    \/ \E probe \in ProbeOutcomes, diag \in {"ok", "raise"} :
          check_connectivity(probe, diag)
    \/ restart_router_begin
    \/ \E outcome \in {"ok", "unreachable", "raise"} :
          router_check_connection(outcome)
    \/ \E outcome \in {"true", "false", "raise"} :
          router_restart_command(outcome)
    \/ restart_wait_sleep
    \/ \E probe \in ProbeOutcomes : post_restart_probe(probe)

SpecCall == InitCall /\ [][NextCall]_vars

\* ------------------------------------------- _health_check as a function
\* The object after many checks: check_count around the two numbers the
\* health check depends on, the failed checks around one half of them, and a
\* cooldown flag that was raised at some earlier restart.
HealthCounts ==
    ((HealthMinChecks - 1)..(HealthMinChecks + MaxOver))
        \cup {HealthPeriod - 2, HealthPeriod - 1, HealthPeriod}
FailedChoices(cc) ==
    {0, cc \div 2, cc \div 2 + 1, (cc + 1) \div 2, (cc + 1) \div 2 + 1, cc}
        \cap (0..cc)

InitHealth ==
    /\ mode = "monitor"
    /\ username_set = TRUE
    /\ password_set = TRUE
    /\ max_failures = 1
    /\ max_restarts_before_cooldown = 1
    /\ check_count \in HealthCounts
    /\ total_failed_checks \in FailedChoices(check_count)
    /\ total_successful_checks = check_count - total_failed_checks
    /\ consecutive_failures = 0
    /\ in_cooldown \in BOOLEAN
    /\ restart_count = IF in_cooldown THEN 1 ELSE 0
    /\ total_restarts_attempted = restart_count
    /\ successful_restarts = restart_count
    /\ last_restart_time \in IF in_cooldown THEN 1..StartTime ELSE {0}
    /\ now \in StartTime..MaxTime
    /\ cycle_start = now
    /\ pc = "cycle"
    /\ check_result = TRUE
    /\ cooldown_result = NoCooldown
    /\ restart_success = FALSE
    /\ once_result = FALSE
    /\ failed_since_success = 0
    /\ pre = NoPre
    /\ rr_outcome = "none"
    /\ invoked = 0
    /\ cycle_attempts = 0
    /\ cycle_router_calls = 0
    /\ accepted_since_reset = restart_count
    /\ attempts_since_restore = 0
    /\ cap_time = last_restart_time
    /\ early_attempt = FALSE
    /\ scen = 4
    /\ last_sleep = NoSleep
    /\ status = NoStatus
    /\ stop_at = "none"
    /\ exit_code = -1
    /\ exit_by = "none"
    /\ errors = 0
    /\ prev_denied = FALSE
    /\ health = NoHealth
    /\ ping_env = "valid"
    /\ ping_results = [h \in Hosts |-> "ok"]
    /\ connected = FALSE
    /\ probed = 0
    /\ probe_raised = FALSE
    /\ ClientIdle

\* Entry of check_connectivity() on that object: self.check_count += 1 and,
\* on every 100th check, _health_check() and _log_statistics().
periodic_check ==
    /\ pc = "cycle"
    /\ mode = "monitor"
    /\ check_count' = check_count + 1
    /\ health' = periodic_health(health, in_cooldown, last_restart_time,
                                 check_count + 1, total_failed_checks, now)
    /\ cycle_attempts' = 0
    /\ cycle_router_calls' = 0
    /\ cooldown_result' = NoCooldown
    /\ status' = NoStatus
    /\ last_sleep' = NoSleep
    /\ pc' = "probing"
    /\ prev_denied' = cooldown_result.denied
    /\ UNCHANGED <<config_vars, probe_vars, client_vars, consecutive_failures,
                   total_successful_checks, total_failed_checks, restart_count,
                   last_restart_time, in_cooldown, total_restarts_attempted,
                   successful_restarts, now, cycle_start, check_result,
                   restart_success, once_result, failed_since_success, pre,
                   rr_outcome, invoked, accepted_since_reset,
                   attempts_since_restore, cap_time, early_attempt, scen,
                   exit_vars>>

NextHealth ==
    \/ periodic_check
    \/ get_status

SpecHealth == InitHealth /\ [][NextHealth]_vars

\* ------------------------------------------------- a persistent outage
\* The monitoring loop while every probe fails, the router is reachable and
\* accepts every restart command, no log call raises and no signal arrives.
\* The single control thread always takes its next step.
InitOutage ==
    /\ Init
    /\ mode = "monitor"
    /\ username_set
    /\ password_set

NextOutage ==
    \/ load_config
    \/ check_begin
    \/ check_connectivity("down", "ok")
    \/ schedule_next_check
    \/ loop_cooldown_check
    \/ after_restart
    \/ interval_sleep
    \/ penalty_sleep
    \/ restart_router_begin
    \/ router_check_connection("ok")
    \/ router_restart_command("true")
    \/ restart_wait_sleep
    \/ post_restart_probe("down")

SpecOutage == InitOutage /\ [][NextOutage]_vars /\ WF_vars(NextOutage)

\* ================================================================ claims
OkHosts == {h \in Hosts : ping_results[h] = "ok"}
Elapsed == now - last_restart_time
\* The step in which the loop consults the policy: the cycle is neither
\* interrupted by a signal nor left through an exception.
LoopPolicyStep ==
    /\ pc = "checked"
    /\ mode = "monitor"
    /\ ~check_result
    /\ threshold_reached(consecutive_failures, max_failures)
    /\ pc' \notin {"stopped", "exited", "error_pause"}

\* C1: consecutive_failures equals the number of failed checks since the
\* most recent successful probe (0 right after a success); a reset by
\* anything else would break the equality.
C1_FailuresSinceSuccess == consecutive_failures = failed_since_success

\* C2: every evaluation of _is_in_cooldown() made while restart_count is at
\* the cap denies the restart and changes nothing as long as less than
\* cooldown_seconds have passed since last_restart_time; the evaluation at
\* or after that instant permits it and sets restart_count to 0 and
\* in_cooldown to false.
C2_CooldownInvariant ==
    [][(LoopPolicyStep /\ restart_count = max_restarts_before_cooldown) =>
          IF Elapsed < cooldown_seconds
          THEN /\ cooldown_result'.denied
               /\ cooldown_result'.remaining = cooldown_seconds - Elapsed
               /\ pc' = "sleep"
               /\ restart_count' = restart_count
               /\ in_cooldown' = in_cooldown
          ELSE /\ ~cooldown_result'.denied
               /\ pc' = "restart"
               /\ restart_count' = 0
               /\ in_cooldown' = FALSE]_vars

\* C2 witness: a window that really ran (after an accepted restart) was
\* found elapsed and the budget has just been cleared by the evaluation.
C2_Witness ==
    /\ pc = "restart"
    /\ cooldown_result.kind = "expired"
    /\ last_restart_time > 0
    /\ Elapsed >= cooldown_seconds
    /\ restart_count = 0
    /\ ~in_cooldown

\* C3: a successful check made while restart_count > 0 leaves
\* restart_count = 0 and in_cooldown = false.
C3_RecoveryClearsBudget ==
    [][(pc = "probing" /\ pc' = "checked" /\ check_result' /\ restart_count > 0) =>
          (restart_count' = 0 /\ in_cooldown' = FALSE)]_vars

\* C4: a restart attempt whose restart command raised returns with
\* restart_count, total_restarts_attempted, successful_restarts,
\* last_restart_time and in_cooldown as they were when the attempt began.
C4_RollbackLaw ==
    (pc = "returned" /\ rr_outcome = "cmd_error") =>
        /\ restart_count = pre.restart_count
        /\ total_restarts_attempted = pre.total_restarts_attempted
        /\ successful_restarts = pre.successful_restarts
        /\ last_restart_time = pre.last_restart_time
        /\ in_cooldown = pre.in_cooldown

\* C4 witness: the command raised in an attempt that began with part of the
\* budget and of the lifetime counter already used.
C4_Witness ==
    /\ pc = "returned"
    /\ rr_outcome = "cmd_error"
    /\ restart_count > 0
    /\ total_restarts_attempted > 0

\* C5: check_internet returns true iff at least 3 of the 4 hosts answered
\* the ping, and it pings all 4 hosts whatever the earlier results were.
C5_QuorumLaw ==
    probed # 0 =>
        /\ connected = (Cardinality(OkHosts) >= 3)
        /\ probed = 4

\* C5 witness: exactly three hosts answered, the fourth ping raised, and the
\* verdict is connected.
C5_Witness ==
    /\ connected = TRUE
    /\ Cardinality(OkHosts) = 3
    /\ \E h \in Hosts : ping_results[h] = "raise"

EndOfCycle == mode = "monitor" /\ pc \in {"sleep", "penalty"}

C7_CooldownAfterBudget ==
    /\ [][(LoopPolicyStep
             /\ accepted_since_reset = max_restarts_before_cooldown
             /\ Elapsed < cooldown_seconds) =>
          (/\ cooldown_result'.denied
           /\ cooldown_result'.remaining = cooldown_seconds - Elapsed
           /\ pc' = "sleep"
           /\ UNCHANGED state_vars)]_vars
    /\ [](((EndOfCycle \/ (mode = "monitor" /\ pc = "cycle"))
             /\ cooldown_result.denied) =>
          (cycle_attempts = 0 /\ cycle_router_calls = 0))

\* C7 witness: two accepted restarts in immediate succession (restart wait
\* and penalty only), then the failing cycle is denied with the window less
\* that time remaining.
C7_Witness ==
    /\ mode = "monitor"
    /\ pc = "sleep"
    /\ max_restarts_before_cooldown = 2
    /\ accepted_since_reset = 2
    /\ successful_restarts = 2
    /\ cooldown_result.denied
    /\ cooldown_result.remaining = cooldown_seconds - (restart_wait + PenaltySleep)
    /\ cycle_router_calls = 0

C10_CheckOnce ==
    (mode = "once" /\ pc = "done") =>
        /\ check_count = 1
        /\ invoked <= 1
        /\ check_result =>
              /\ once_result
              /\ invoked = 0
              /\ cycle_router_calls = 0
              /\ total_restarts_attempted = 0
        /\ ~check_result =>
              /\ invoked = 1
              /\ once_result = restart_success
              /\ once_result = (rr_outcome = "restored")

\* C10 witness: the single check failed below the loop's threshold and the
\* one restart attempt brought the connection back.
C10_Witness ==
    /\ mode = "once"
    /\ pc = "done"
    /\ ~check_result
    /\ consecutive_failures = 0
    /\ max_failures = 2
    /\ invoked = 1
    /\ once_result

\* C11: in every reachable state, in_cooldown = TRUE implies that
\* restart_count has reached max_restarts_before_cooldown.
C11_CooldownMeansBudgetSpent ==
    in_cooldown => restart_count >= max_restarts_before_cooldown

\* C11 witness: the flag has just been raised by an accepted restart that
\* spent the last unit of the budget.
C11_Witness ==
    /\ in_cooldown
    /\ rr_outcome = "accepted"
    /\ pc = "wait"

\* C12: after every operation 0 <= restart_count <=
\* max_restarts_before_cooldown: rollback never drives the counter negative
\* and the policy check before each increment keeps it at or below the cap.
C12_RestartCountBounds ==
    /\ 0 <= restart_count
    /\ restart_count <= max_restarts_before_cooldown

\* C12 witness: with a budget of one the attempt brought restart_count from
\* 0 to the cap and the rollback after restart() = false returned it to 0.
C12_Witness ==
    /\ max_restarts_before_cooldown = 1
    /\ pre.restart_count = 0
    /\ rr_outcome = "cmd_false"
    /\ restart_count = 0
    /\ pc = "returned"

\* C13: between operations, whenever the policy would deny (restart_count
\* at the cap and the window since last_restart_time not elapsed),
\* in_cooldown is TRUE, so the status snapshot reports the cooldown.
C13_DenyImpliesFlag ==
    (/\ pc \in {"cycle", "sleep", "penalty"}
     /\ restart_count >= max_restarts_before_cooldown
     /\ Elapsed < cooldown_seconds)
        => in_cooldown

\* C14: an exception raised anywhere inside a monitoring cycle never ends
\* the loop; the monitoring process ends only through a shutdown signal or
\* a configuration error at startup.
C14_LoopSurvivesExceptions ==
    (mode = "monitor" /\ pc \in Terminal) => exit_by \in {"signal", "config"}

\* C15: the signal handler logs the final statistics and exits only
\* between cycles: at that moment no cycle is partway through its counter
\* updates, so check_count = total_successful_checks + total_failed_checks.
C15_StopBetweenCycles ==
    (mode = "monitor" /\ pc = "stopped") =>
        /\ stop_at \in BetweenCycles
        /\ check_count = total_successful_checks + total_failed_checks

\* C16: a shutdown request that arrives during a blocking wait is honoured
\* within the current slice of the sleep, every wait being taken in slices
\* of at most 30 seconds; the process stops with exit code 0 and nothing is
\* started after it.
C16_SlicedWaits ==
    /\ last_sleep.seconds <= SliceSeconds
    /\ pc = "stopped" => (exit_code = 0 /\ exit_by = "signal")

\* C16 (amended): a signal that arrives during any blocking wait cuts the
\* sleep short at once (the clock does not advance and no field changes),
\* the process is stopped with exit code 0 and takes no further step; only
\* the restart wait is sliced, in time.sleep calls of at most 30 seconds.
C16_SignalCutsWait ==
    /\ [][(pc \in BlockingWaits /\ exit_by' = "signal") =>
            (/\ pc' = "stopped"
             /\ stop_at' = pc
             /\ exit_code' = 0
             /\ now' = now
             /\ UNCHANGED <<state_vars, history_vars, check_result>>)]_vars
    /\ [][pc # "stopped"]_vars
    /\ [](last_sleep.kind = "restart_wait" => last_sleep.seconds <= SliceSeconds)

\* C16 witness: the signal arrived during the 5-minute penalty sleep that
\* follows a restart after which the connection was still down.
C16_Witness ==
    /\ pc = "stopped"
    /\ stop_at = "penalty"
    /\ rr_outcome = "still_down"
    /\ exit_code = 0

\* C17: in single-check mode the exit code is 0 iff the single connectivity
\* check succeeded and 1 if it failed; a shutdown by signal exits with 0 and
\* an initialization error with 1.
C17_ExitCodeIsCheckResult ==
    /\ exit_by = "once" => (exit_code = 0 <=> check_result)
    /\ exit_by = "once" => (exit_code = 1 <=> ~check_result)
    /\ exit_by = "signal" => exit_code = 0
    /\ exit_by = "config" => exit_code = 1

\* C17 (amended): in single-check mode the exit code is 0 iff check_once()
\* returned true, that is iff the check succeeded or the restart attempt
\* that followed the failed check brought the connection back, and 1
\* otherwise; a shutdown by signal exits with 0, an initialization error
\* and an exception that leaves check_once() with 1.
C17_ExitCodeIsOnceResult ==
    /\ exit_by = "once" =>
          /\ exit_code = 0 <=> (check_result \/ rr_outcome = "restored")
          /\ exit_code = 1 <=> ~(check_result \/ rr_outcome = "restored")
    /\ exit_by = "signal" => exit_code = 0
    /\ exit_by \in {"config", "error"} => exit_code = 1

\* C17 witness: the single check failed, the restart restored the
\* connection and the process exited with 0.
C17_Witness ==
    /\ exit_by = "once"
    /\ ~check_result
    /\ rr_outcome = "restored"
    /\ exit_code = 0

\* C18: when the username or the password is missing the process ends with
\* a non-zero code during construction: no probe, no router call and no
\* monitoring cycle is ever run; with both present construction succeeds.
C18_MissingCredentials ==
    /\ (pc # "init" /\ ~(username_set /\ password_set)) =>
          /\ pc = "exited"
          /\ exit_by = "config"
          /\ exit_code = 1
          /\ check_count = 0
          /\ invoked = 0
          /\ cycle_router_calls = 0
          /\ ~status.queried
    /\ exit_by = "config" => ~(username_set /\ password_set)

\* C18 witness: the username is set, the password is not, and the
\* constructor has exited.
C18_Witness ==
    /\ username_set
    /\ ~password_set
    /\ pc = "exited"
    /\ exit_by = "config"

\* C19: every check increases check_count by exactly 1 and exactly one of
\* total_successful_checks and total_failed_checks by 1, also when the probe
\* or the diagnostics raise, so after every completed check
\* check_count = total_successful_checks + total_failed_checks.
C19_CheckAccounting ==
    (pc = "checked" /\ errors = 0) =>
        check_count = total_successful_checks + total_failed_checks

\* C20: get_status is a pure read: it changes no field (it does not clear
\* an expired cooldown and touches neither restart_count, in_cooldown nor
\* the counters), contacts neither the probe nor the router, and reports
\* the fields as they are.
C20_GetStatusPure ==
    [][(~status.queried /\ status'.queried) =>
          (/\ UNCHANGED <<state_vars, probe_vars, history_vars, now,
                          check_result, cooldown_result, restart_success>>
           /\ status'.in_cooldown = in_cooldown
           /\ status'.restart_count = restart_count
           /\ status'.check_count = check_count)]_vars

\* C20 witness: the status was read while the cooldown flag was still set
\* although the window had elapsed; the flag and the budget are untouched.
C20_Witness ==
    /\ status.queried
    /\ status.in_cooldown
    /\ status.cooldown_remaining = 0
    /\ in_cooldown
    /\ restart_count = max_restarts_before_cooldown
    /\ Elapsed >= cooldown_seconds
    /\ pc = "cycle"

\* Index of the first attempt that connects (0: none does).
FirstConnected ==
    IF \E i \in 1..max_retries : connect_results[i] = "connected"
    THEN CHOOSE i \in 1..max_retries :
            /\ connect_results[i] = "connected"
            /\ \A j \in 1..(i - 1) : connect_results[j] # "connected"
    ELSE 0

\* C21: check_connection makes at most 3 connect attempts, returns true at
\* the first attempt that connects without attempting again, sleeps 1 s
\* after the first failed attempt and 2 s after the second (never after the
\* third), and returns false only when all 3 attempts have failed.
C21_RetryBackoff ==
    (client_op = "check" /\ log_works) =>
        /\ connects <= 3
        /\ Len(waits) <= 2
        /\ client_pc = "done" =>
              IF FirstConnected # 0
              THEN /\ client_result = "true"
                   /\ connects = FirstConnected
                   /\ waits = SubSeq(<<1, 2>>, 1, FirstConnected - 1)
              ELSE /\ client_result = "false"
                   /\ connects = 3
                   /\ waits = <<1, 2>>

\* C21 witness: the first attempt was refused, the second raised, the third
\* connected after sleeps of 1 s and 2 s.
C21_Witness ==
    /\ client_op = "check"
    /\ log_works
    /\ client_pc = "done"
    /\ connect_results = <<"refused", "error", "connected">>
    /\ client_result = "true"
    /\ waits = <<1, 2>>

\* Index of the first restart method whose request gets a response (0: none).
FirstAnswered ==
    IF \E i \in 1..3 : soap_results[restart_methods[i]] = "response"
    THEN CHOOSE i \in 1..3 :
            /\ soap_results[restart_methods[i]] = "response"
            /\ \A j \in 1..(i - 1) : soap_results[restart_methods[j]] # "response"
    ELSE 0

\* C22: FritzBoxTR064.restart_router tries its restart methods in the fixed
\* order Reboot, Restart, alternative Reboot, returns true at the first
\* method whose request yields a response and sends no restart request after
\* it, and returns false iff every method yields None.
C22_RestartMethodsInOrder ==
    (client_op = "restart" /\ log_works /\ client_pc = "done") =>
        /\ requests[1] = "GetInfo"
        /\ IF FirstAnswered # 0
           THEN /\ client_result = "true"
                /\ SubSeq(requests, 2, Len(requests)) =
                      SubSeq(restart_methods, 1, FirstAnswered)
           ELSE /\ client_result = "false"
                /\ SubSeq(requests, 2, Len(requests)) = restart_methods

\* C22 witness: the first method met an HTTP error, the second was answered
\* and the third was never sent.
C22_Witness ==
    /\ client_op = "restart"
    /\ client_pc = "done"
    /\ soap_results["DeviceConfig Reboot"] = "http_error"
    /\ soap_results["Alternative DeviceConfig"] = "response"
    /\ client_result = "true"
    /\ requests = <<"GetInfo", "DeviceConfig Reboot", "DeviceConfig Restart">>

\* C23: the connectivity probe never raises: whatever the host probes do,
\* check_internet returns a boolean.
C23_ProbeNeverRaises == ~probe_raised

\* C24: the router client never raises out of check_connection() or
\* restart_router(): the caller only ever sees a boolean.
C24_ClientNeverRaises == client_result # "raise"

\* C25: in a monitoring cycle whose check failed with the threshold reached
\* and the policy denying a restart, the cycle goes straight to its normal
\* sleep: no router call is made and no field of the state changes, so
\* restart_count, total_restarts_attempted, successful_restarts,
\* last_restart_time and in_cooldown keep their values and
\* consecutive_failures is not reset.  The next failing check therefore meets
\* the threshold again, and is denied again while the cooldown window lasts.
C25_DeniedCycleFrame ==
    /\ [][(LoopPolicyStep /\ cooldown_result'.denied)
            => /\ pc' = "sleep"
               /\ UNCHANGED <<state_vars, cycle_router_calls, cycle_attempts,
                              invoked>>]_vars
    /\ []((mode = "monitor" /\ pc \in {"sleep", "cycle"} /\ cooldown_result.denied)
            => /\ cycle_router_calls = 0
               /\ cycle_attempts = 0
               /\ consecutive_failures >= max_failures
               /\ restart_count >= max_restarts_before_cooldown)
    /\ []((mode = "monitor" /\ pc = "checked" /\ prev_denied /\ ~check_result)
            => threshold_reached(consecutive_failures, max_failures))
    /\ [][(LoopPolicyStep /\ prev_denied /\ Elapsed < cooldown_seconds)
            => cooldown_result'.denied]_vars

\* Two denied cycles in a row.
C25_Witness ==
    /\ mode = "monitor"
    /\ pc = "sleep"
    /\ prev_denied
    /\ cooldown_result.denied
    /\ consecutive_failures > max_failures

\* C26: when the router was reachable and its restart command returned false,
\* restart_router() returns false with restart_count back at its value before
\* the attempt, total_restarts_attempted one higher, and successful_restarts,
\* last_restart_time and in_cooldown untouched.
C26_RestartCommandFalse ==
    (pc = "returned" /\ rr_outcome = "cmd_false")
        => /\ ~restart_success
           /\ restart_count = pre.restart_count
           /\ total_restarts_attempted = pre.total_restarts_attempted + 1
           /\ successful_restarts = pre.successful_restarts
           /\ last_restart_time = pre.last_restart_time
           /\ in_cooldown = pre.in_cooldown
           /\ cycle_router_calls = 2

\* A false restart command after an earlier accepted restart.
C26_Witness ==
    /\ pc = "returned"
    /\ rr_outcome = "cmd_false"
    /\ restart_count = 1
    /\ total_restarts_attempted = 2

\* C27: when check_connection() returns false inside a permitted attempt, the
\* restart command is not invoked and restart_router() returns false with
\* restart_count and total_restarts_attempted each one higher than before the
\* attempt and successful_restarts, last_restart_time and in_cooldown
\* untouched.
C27_RouterUnreachable ==
    (pc = "returned" /\ rr_outcome = "unreachable")
        => /\ ~restart_success
           /\ cycle_router_calls = 1
           /\ restart_count = pre.restart_count + 1
           /\ total_restarts_attempted = pre.total_restarts_attempted + 1
           /\ successful_restarts = pre.successful_restarts
           /\ last_restart_time = pre.last_restart_time
           /\ in_cooldown = pre.in_cooldown

\* An unreachable router spends the last unit of the budget.
C27_Witness ==
    /\ pc = "returned"
    /\ rr_outcome = "unreachable"
    /\ max_restarts_before_cooldown = 2
    /\ restart_count = 2
    /\ ~in_cooldown

\* C28: once the restart command returned true, successful_restarts is one
\* higher, last_restart_time is the time of the acceptance, restart_count
\* keeps its increment whatever the later re-probe says, and in_cooldown is
\* true exactly when restart_count has reached the cap and otherwise keeps
\* its value.
C28_RestartAccepted ==
    (pc \in {"wait", "reprobe", "returned"}
        /\ rr_outcome \in {"accepted", "restored", "still_down"})
        => /\ successful_restarts = pre.successful_restarts + 1
           /\ restart_count = pre.restart_count + 1
           /\ total_restarts_attempted = pre.total_restarts_attempted + 1
           /\ pc = "wait" => last_restart_time = now
           /\ last_restart_time <= now
           /\ last_restart_time >= cycle_start
           /\ in_cooldown = IF restart_count >= max_restarts_before_cooldown
                            THEN TRUE ELSE pre.in_cooldown

\* The accepted restart that reaches the cap, connectivity still down.
C28_Witness ==
    /\ pc = "returned"
    /\ rr_outcome = "still_down"
    /\ max_restarts_before_cooldown = 2
    /\ restart_count = 2
    /\ in_cooldown
    /\ ~pre.in_cooldown

\* C29: after the restart command was accepted nothing happens until the
\* whole restart_wait has elapsed; then one re-probe follows, without any
\* further router call.  restart_router() returns true, with
\* consecutive_failures at 0, exactly when the re-probe succeeds; otherwise it
\* returns false and restart_count and total_restarts_attempted keep their
\* increments.
C29_WaitThenOneReprobe ==
    /\ [][(pc = "wait" /\ pc' # "stopped")
            => /\ pc' = "reprobe"
               /\ now' >= now + restart_wait
               /\ UNCHANGED <<state_vars, cycle_router_calls, check_result>>]_vars
    /\ [](pc = "reprobe"
            => /\ now - last_restart_time >= restart_wait
               /\ cycle_router_calls = 2)
    /\ [][(pc = "reprobe" /\ pc' # "stopped")
            => /\ pc' = "returned"
               /\ rr_outcome' \in {"restored", "still_down"}
               /\ UNCHANGED <<cycle_router_calls, check_count, restart_count,
                              total_restarts_attempted, now>>]_vars
    /\ []((pc = "returned" /\ rr_outcome \in {"restored", "still_down"})
            => /\ restart_success = (rr_outcome = "restored")
               /\ restart_success => consecutive_failures = 0
               /\ ~restart_success => consecutive_failures > 0
               /\ restart_count = pre.restart_count + 1
               /\ total_restarts_attempted = pre.total_restarts_attempted + 1)

\* A re-probe that found the connection still down, after the full wait.
C29_Witness ==
    /\ pc = "returned"
    /\ rr_outcome = "still_down"
    /\ ~restart_success
    /\ now - last_restart_time >= restart_wait
    /\ restart_count = pre.restart_count + 1

\* C30: in the loop, when restart_router() returned false or raised, the next
\* cycle starts after the fixed five-minute sleep and the normal interval
\* sleep is skipped; when it returned true the normal interval rule applies.
C30_PenaltyAfterFailedRestart ==
    /\ [][(mode = "monitor" /\ pc = "returned" /\ pc' # "stopped")
            => pc' = IF rr_outcome = "restored" THEN "sleep" ELSE "penalty"]_vars
    /\ [](pc = "penalty" => ~restart_success /\ rr_outcome # "restored")
    /\ [][(pc = "penalty" /\ pc' # "stopped")
            => /\ pc' = "cycle"
               /\ now' >= now + PenaltySleep
               /\ last_sleep' = [kind |-> "penalty",
                                 seconds |-> PenaltySleep * TickSeconds]]_vars
    /\ [][(pc = "sleep" /\ pc' # "stopped")
            => /\ pc' = "cycle"
               /\ now' >= now + Max(0, check_interval - (now - cycle_start))
               /\ last_sleep'.kind = "interval"]_vars

\* The penalty sleep after a restart_router() that raised.
C30_Witness ==
    /\ pc = "penalty"
    /\ rr_outcome = "raised"

\* The policy evaluated on the current fields, and evaluated once more on
\* what that evaluation left behind.
PolicyOnce == is_in_cooldown(restart_count, last_restart_time, in_cooldown, now)
PolicyTwice ==
    is_in_cooldown(PolicyOnce.restart_count, last_restart_time,
                   PolicyOnce.in_cooldown, now)

\* C31: evaluating the cooldown policy changes state only when it finds an
\* expired cooldown.  Below the cap it permits, inside the window it denies
\* with remaining = window - elapsed, and in both cases restart_count and
\* in_cooldown keep their values (no other field is written at all); a second
\* evaluation at the same instant gives the answer and the state of the
\* first.  The loop and restart_router() evaluate it back to back: the second
\* evaluation permits and changes nothing.
C31_PolicyIdempotent ==
    /\ [](/\ restart_count < max_restarts_before_cooldown
             => /\ ~PolicyOnce.denied
                /\ PolicyOnce.remaining = 0
                /\ PolicyOnce.restart_count = restart_count
                /\ PolicyOnce.in_cooldown = in_cooldown
          /\ (restart_count >= max_restarts_before_cooldown
                /\ Elapsed < cooldown_seconds)
             => /\ PolicyOnce.denied
                /\ PolicyOnce.remaining = cooldown_seconds - Elapsed
                /\ PolicyOnce.restart_count = restart_count
                /\ PolicyOnce.in_cooldown = in_cooldown
          /\ PolicyTwice.denied = PolicyOnce.denied
          /\ PolicyTwice.remaining = PolicyOnce.remaining
          /\ PolicyTwice.restart_count = PolicyOnce.restart_count
          /\ PolicyTwice.in_cooldown = PolicyOnce.in_cooldown)
    /\ [][(LoopPolicyStep /\ cooldown_result'.kind # "expired")
            => UNCHANGED state_vars]_vars
    /\ [][LoopPolicyStep
            => /\ cooldown_result'.denied = PolicyOnce.denied
               /\ cooldown_result'.remaining = PolicyOnce.remaining
               /\ cooldown_result'.denied
                  => cooldown_result'.remaining = cooldown_seconds - Elapsed]_vars
    /\ [][(pc = "restart" /\ mode = "monitor" /\ pc' \in {"reach", "returned"})
            => /\ pc' = "reach"
               /\ restart_count' = restart_count + 1
               /\ in_cooldown' = in_cooldown]_vars

\* A denial some time into the window: part of it is still remaining.
C31_Witness ==
    /\ mode = "monitor"
    /\ pc = "sleep"
    /\ cooldown_result.denied
    /\ cooldown_result.remaining > 0
    /\ cooldown_result.remaining < cooldown_seconds
    /\ cooldown_result.remaining = cooldown_seconds - Elapsed

\* C32: when the cooldown re-check at the entry of restart_router() denies,
\* restart_router() returns false and has done nothing but count the attempt
\* in total_restarts_attempted: the router is not contacted and
\* restart_count, successful_restarts, last_restart_time, in_cooldown and
\* consecutive_failures keep their values.
C32_DeniedAtEntry ==
    /\ [][(pc = "restart" /\ PolicyOnce.denied)
            => /\ pc' = "returned"
               /\ restart_success' = FALSE
               /\ rr_outcome' = "denied"
               /\ total_restarts_attempted' = total_restarts_attempted + 1
               /\ UNCHANGED <<restart_count, successful_restarts,
                              last_restart_time, in_cooldown,
                              consecutive_failures, cycle_router_calls,
                              check_count, total_successful_checks,
                              total_failed_checks, now>>]_vars
    /\ []((pc = "returned" /\ rr_outcome = "denied")
            => /\ ~restart_success
               /\ cycle_router_calls = 0
               /\ total_restarts_attempted = pre.total_restarts_attempted + 1
               /\ restart_count = pre.restart_count
               /\ successful_restarts = pre.successful_restarts
               /\ last_restart_time = pre.last_restart_time
               /\ in_cooldown = pre.in_cooldown)

\* A call denied at entry while failures were counted before it.
C32_Witness ==
    /\ pc = "returned"
    /\ rr_outcome = "denied"
    /\ consecutive_failures > 0
    /\ restart_count = max_restarts_before_cooldown
    /\ total_restarts_attempted > restart_count

\* What the health check is said to report, with the failure rate judged
\* from min_checks checks on (inclusive when from_min, exclusive otherwise).
StuckInCooldown ==
    in_cooldown /\ now - last_restart_time > 2 * cooldown_seconds
HighFailureRate(from_min) ==
    /\ IF from_min THEN check_count >= 10 ELSE check_count > 10
    /\ 2 * total_failed_checks > check_count
HealthLaw(from_min) ==
    /\ health.by = "periodic"
        => /\ check_count % 100 = 0
           /\ ("stuck_in_cooldown" \in health.issues) = StuckInCooldown
           /\ ("high_failure_rate" \in health.issues) = HighFailureRate(from_min)
    /\ (pc = "probing" /\ check_count % 100 = 0) => health.by = "periodic"
    /\ (pc = "probing" /\ check_count % 100 # 0) => health.by = "none"
    /\ status.queried
        => status.healthy = ~(StuckInCooldown \/ HighFailureRate(from_min))

\* C33 as stated: the high-failure-rate issue is reported exactly when at
\* least 10 checks were performed and more than half of them failed, the
\* stuck-in-cooldown issue exactly when in_cooldown holds and more than twice
\* the cooldown window has passed since last_restart_time.
C33_HealthFromTenChecks == HealthLaw(TRUE)

\* C33, amended: the high-failure-rate issue is reported exactly when more
\* than 10 checks were performed and more than half of them failed, the
\* stuck-in-cooldown issue exactly when in_cooldown holds and more than twice
\* the cooldown window has passed since last_restart_time; the check runs at
\* the entry of every check whose number is a multiple of 100 and writes no
\* field and decides no branch.
C33_HealthAfterTenChecks ==
    /\ [](HealthLaw(FALSE))
    /\ [][(pc = "cycle" /\ pc' = "probing")
            => /\ check_count' = check_count + 1
               /\ UNCHANGED <<consecutive_failures, total_successful_checks,
                              total_failed_checks, restart_count,
                              last_restart_time, in_cooldown,
                              total_restarts_attempted, successful_restarts,
                              now, check_result>>]_vars
    /\ [][(status'.queried /\ ~status.queried)
            => UNCHANGED <<state_vars, pc, health>>]_vars

\* The 100th check with more than half of the checks failed and a cooldown
\* flag older than two windows: both issues are reported.
C33_Witness ==
    /\ pc = "probing"
    /\ check_count = 100
    /\ health.by = "periodic"
    /\ health.issues = {"stuck_in_cooldown", "high_failure_rate"}

\* C34: a cycle that ends neither in the penalty nor in the error pause is
\* followed by a sleep of max(0, check_interval - cycle_duration): the
\* requested time is never negative, it is 0 (no sleep at all) when the cycle
\* took the interval or longer, and the next cycle starts when the sleep
\* ends.  Each loop iteration makes exactly one check: check_count grows by
\* one on entering the check and nowhere else, and a check is entered only
\* from the head of the loop.
C34_IntervalSleep ==
    /\ [][(mode = "monitor" /\ pc = "sleep" /\ pc' # "stopped")
            => /\ pc' = "cycle"
               /\ last_sleep'.kind = "interval"
               /\ last_sleep'.seconds
                    = Max(0, check_interval - (now - cycle_start)) * TickSeconds
               /\ last_sleep'.seconds >= 0
               /\ now - cycle_start >= check_interval => last_sleep'.seconds = 0
               /\ now' * TickSeconds >= now * TickSeconds + last_sleep'.seconds
               /\ cycle_start' = now'
               /\ UNCHANGED state_vars]_vars
    /\ [][(mode = "monitor" /\ pc = "cycle" /\ pc' # pc)
            => \/ pc' = "stopped"
               \/ pc' = "probing" /\ check_count' = check_count + 1]_vars
    /\ [][(mode = "monitor" /\ pc' = "probing" /\ pc # "probing")
            => pc = "cycle"]_vars
    /\ [][(mode = "monitor" /\ check_count' # check_count)
            => pc = "cycle" /\ pc' = "probing"]_vars

\* The loop is back at its head after a cycle that took the interval or
\* longer (a restart and its wait): no sleep was requested.
C34_Witness ==
    /\ mode = "monitor"
    /\ pc = "cycle"
    /\ check_count > 0
    /\ last_sleep = [kind |-> "interval", seconds |-> 0]
    /\ rr_outcome = "restored"

\* Positions of a restart attempt up to and including the restart command.
AttemptStarted == pc \in {"restart", "reach", "command"}

PermittedAtEntry ==
    \/ pre.restart_count < max_restarts_before_cooldown
    \/ now - pre.last_restart_time >= cooldown_seconds

\* C36: the router's restart command is sent only inside an attempt in which
\* first the cooldown policy permitted the restart and then
\* check_connection() returned true; it is never sent in an attempt or a
\* cycle the policy denied, and at most once per attempt.
C36_RestartAfterPolicyAndReach ==
    /\ [](pc = "command"
            => /\ PermittedAtEntry
               /\ rr_outcome = "running"
               /\ cycle_attempts = 1
               /\ cycle_router_calls = 1
               /\ restart_count = pre.restart_count + 1)
    /\ []((pc \in {"wait", "reprobe"}
            \/ (pc = "returned"
                  /\ rr_outcome \in {"cmd_false", "cmd_error", "accepted",
                                     "restored", "still_down"}))
            => /\ PermittedAtEntry
               /\ cycle_attempts = 1
               /\ cycle_router_calls = 2)
    /\ []((pc = "returned" /\ rr_outcome \in {"denied", "unreachable",
                                              "conn_error", "raised"})
            => cycle_router_calls <= 1)
    /\ [][pc' = "reach" /\ pc # "reach" => pc = "restart"]_vars
    /\ [][pc' = "command" /\ pc # "command"
            => pc = "reach" /\ cycle_router_calls' = 1]_vars
    /\ [][(cycle_router_calls' = 2 /\ cycle_router_calls # 2)
            => pc = "command"]_vars
    /\ [](cycle_router_calls <= 2)

\* The second restart command of a budget of two, still inside the window
\* that the first one opened.
C36_Witness ==
    /\ pc = "command"
    /\ pre.restart_count = 1
    /\ max_restarts_before_cooldown = 2
    /\ now - pre.last_restart_time < cooldown_seconds

\* C37: between two resets of restart_count (by an expired cooldown or by a
\* recovery) the router accepts at most max_restarts_before_cooldown restart
\* commands: the restarts accepted since the last reset never exceed
\* restart_count, which never exceeds the cap; a reset starts the count
\* again, and an accepted command is one more in both.
C37_AcceptedWithinBudget ==
    /\ [](/\ accepted_since_reset <= restart_count
          /\ restart_count <= max_restarts_before_cooldown
          /\ accepted_since_reset <= successful_restarts)
    /\ [][(restart_count' = 0 /\ restart_count > 0 /\ pc # "command")
            => accepted_since_reset' = 0]_vars
    /\ [][successful_restarts' # successful_restarts
            => /\ successful_restarts' = successful_restarts + 1
               /\ accepted_since_reset' = accepted_since_reset + 1
               /\ restart_count' = restart_count
               /\ accepted_since_reset < max_restarts_before_cooldown]_vars

\* A second budget in use: the cap was reached by accepted restarts, the
\* count was reset, and one restart has been accepted since.
C37_Witness ==
    /\ max_restarts_before_cooldown = 1
    /\ successful_restarts = 2
    /\ accepted_since_reset = 1
    /\ restart_count = 1

\* The control thread is between two operations of the watchdog.
BetweenOperations ==
    pc \in {"cycle", "checked", "returned", "sleep", "penalty", "done"}

\* C38: successful_restarts <= total_restarts_attempted and
\* restart_count <= total_restarts_attempted in every state, and no
\* operation leaves successful_restarts or total_restarts_attempted lower
\* than it found it: successful_restarts never decreases, and
\* total_restarts_attempted decreases only in the rollback of an attempt
\* whose restart command raised, back to its value before that attempt.
C38_LifetimeCounters ==
    /\ [](/\ successful_restarts <= total_restarts_attempted
          /\ restart_count <= total_restarts_attempted
          /\ 0 <= successful_restarts
          /\ 0 <= restart_count)
    /\ []((BetweenOperations /\ invoked > 0)
            => /\ total_restarts_attempted >= pre.total_restarts_attempted
               /\ successful_restarts >= pre.successful_restarts)
    /\ [][successful_restarts' >= successful_restarts]_vars
    /\ [][total_restarts_attempted' < total_restarts_attempted
            => /\ pc = "command"
               /\ pc' = "returned"
               /\ rr_outcome' = "cmd_error"
               /\ total_restarts_attempted' = pre.total_restarts_attempted]_vars

\* An attempt whose restart command raised has returned, after an earlier
\* accepted restart: the attempt is not counted, the earlier one still is.
C38_Witness ==
    /\ pc = "returned"
    /\ rr_outcome = "cmd_error"
    /\ successful_restarts = 1
    /\ total_restarts_attempted = 1
    /\ invoked = 2

\* The run has used up the checks or the clock that the model gives it.
Exhausted == check_count >= MaxChecks \/ now >= MaxTime

\* C39: under a persistent outage with a router that accepts every restart
\* command, the loop keeps making progress: a failing check at the threshold
\* leads to an accepted restart unless the policy denies it; cooldown is
\* entered exactly with the accepted restart that brings restart_count to the
\* cap; every cooldown ends (as far as the run goes); and the cycle whose
\* policy evaluation finds the window elapsed clears the budget and makes a
\* new restart attempt, accepted in that same cycle.
C39_OutageLiveness ==
    /\ [](pc \notin {"reach", "command"}
            => /\ in_cooldown <=> restart_count >= max_restarts_before_cooldown
               /\ accepted_since_reset = restart_count)
    /\ [][(LoopPolicyStep /\ restart_count >= max_restarts_before_cooldown
             /\ Elapsed >= cooldown_seconds)
            => /\ pc' = "restart"
               /\ restart_count' = 0
               /\ ~in_cooldown'
               /\ check_count' = check_count]_vars
    /\ (pc = "restart") ~> (pc = "wait" /\ rr_outcome = "accepted"
                              /\ cycle_attempts = 1)
    /\ in_cooldown ~> (~in_cooldown \/ Exhausted)
    /\ <>(successful_restarts > 0 \/ Exhausted)
    /\ (accepted_since_reset = max_restarts_before_cooldown) ~> in_cooldown

\* The cooldown that followed the first budget has ended and the restart of
\* the cycle that found it elapsed has been accepted.
C39_Witness ==
    /\ pc = "wait"
    /\ cooldown_result.kind = "expired"
    /\ successful_restarts = max_restarts_before_cooldown + 1
    /\ restart_count = 1
    /\ last_restart_time = now

\* C40: the re-probe after the restart wait is not a counted check: it
\* leaves check_count, total_successful_checks and total_failed_checks as
\* they are; when it fails, consecutive_failures keeps its value; when it
\* succeeds, consecutive_failures becomes 0 and nothing else changes, so
\* restart_count and in_cooldown are not reset by it.
C40_ReprobeNotCounted ==
    /\ [][(pc = "reprobe" /\ pc' = "returned")
            => /\ UNCHANGED <<check_count, total_successful_checks,
                              total_failed_checks, restart_count, in_cooldown,
                              last_restart_time, total_restarts_attempted,
                              successful_restarts>>
               /\ rr_outcome' = "still_down"
                    => consecutive_failures' = consecutive_failures
               /\ rr_outcome' = "restored" => consecutive_failures' = 0]_vars
    /\ []((pc = "returned" /\ rr_outcome \in {"restored", "still_down"})
            => /\ restart_count = pre.restart_count + 1
               /\ restart_count > 0
               /\ in_cooldown = (restart_count >= max_restarts_before_cooldown
                                   \/ pre.in_cooldown))

\* A successful re-probe at the cap: the failures are cleared, the budget
\* and the cooldown flag are not, and no successful check was counted.
C40_Witness ==
    /\ pc = "returned"
    /\ rr_outcome = "restored"
    /\ consecutive_failures = 0
    /\ restart_count = max_restarts_before_cooldown
    /\ in_cooldown
    /\ total_successful_checks = 0
    /\ total_failed_checks = check_count

============================================================================
